---- MODULE Spec2Model ----
(***************************************************************************)
(* A model of the lilylink Lavalink client: the track queue (a doubly      *)
(* linked list with a membership set), the player, the track-end recovery  *)
(* of the node connection, the node's reconnect machinery, the player and  *)
(* node registries, the player's control operations, the cache adapters    *)
(* with lazy expiry and revalidation, the REST client's player cache, the  *)
(* voice handshake of the manager, the player's skip, the state snapshot   *)
(* the player keeps in the manager's cache, the REST client's cached GETs, *)
(* the debounced filter updates, the five bundled cache adapters, and      *)
(* destroy against createPlayer.                                           *)
(***************************************************************************)
EXTENDS Integers, Sequences, FiniteSets, TLC

\* ------------------------------------------------------------------ bounds
\* number of distinct track objects the player meets
NumTracks == 2
\* number of distinct track objects put on the host-driven queue
NumQueueTracks == 3
\* longest queue the host builds
MaxQueue == 3
\* largest configured queue start index
MaxStart == 2
\* the node's configured retryAmount
RetryAmount == 2
\* number of distinct stats payloads, session ids and node versions
NumStats == 1
NumSessions == 1
NumVersions == 1
\* most getInfo() calls of ready frames awaited at once
MaxInfoPending == 1
\* number of guild ids
NumGuilds == 2
\* number of node identifiers
NumIdents == 2
\* most player objects constructed in one run
MaxInstances == 2
\* most node objects constructed in one run
MaxNodeObjects == 2

\* null / undefined
Null == 0

Tracks == 1..NumTracks
QueueTracks == 1..NumQueueTracks
Guilds == 1..NumGuilds
Idents == 1..NumIdents

\* LilyTrack.encoded: the opaque payload of a track object
Encoded(t) == IF t = Null THEN Null ELSE 100 + t

Max(a, b) == IF a > b THEN a ELSE b

\* ------------------------------------------------------------------ queue
\* A LilyQueue is a record: nodes (the QueueNode objects still referenced,
\* by id, each with value/prev/next), head, tail, nodeCount, tracks (the
\* membership Set) and startIndex.

QueueNew(queueStartIndex) ==
  [nodes |-> <<>>, head |-> Null, tail |-> Null, nodeCount |-> 0,
   tracks |-> {}, startIndex |-> Max(0, queueStartIndex)]

\* new QueueNode(track): a fresh object, named by the smallest unused id
QueueNode(q) ==
  CHOOSE i \in 1..(Cardinality(DOMAIN q.nodes) + 1) :
    /\ i \notin DOMAIN q.nodes
    /\ \A j \in 1..(i - 1) : j \in DOMAIN q.nodes

\* the node reached from node n by k next links
RECURSIVE Follow(_, _, _)
Follow(q, n, k) == IF k = 0 \/ n = Null THEN n ELSE Follow(q, q.nodes[n].next, k - 1)

\* the QueueNodes from n on, following next / prev links (at most k of them)
RECURSIVE Forward(_, _, _)
Forward(q, n, k) ==
  IF n = Null \/ k = 0 THEN <<>> ELSE <<n>> \o Forward(q, q.nodes[n].next, k - 1)
\* values(): the tracks met from head by next links
QueueValues(q) ==
  LET ns == Forward(q, q.head, Cardinality(DOMAIN q.nodes) + 1)
  IN  [i \in 1..Len(ns) |-> q.nodes[ns[i]].value]

QueueSize(q) == q.nodeCount

QueueHas(q, t) == t \in q.tracks

QueueSetStartIndex(q, index) == [q EXCEPT !.startIndex = Max(0, index)]

QueueAddMutPrepends(q, t) ==
  LET n == QueueNode(q)
  IN  IF q.head # Null
      THEN [q EXCEPT
              !.nodes = [@ EXCEPT ![q.head].prev = n]
                          @@ (n :> [value |-> t, prev |-> Null, next |-> q.head]),
              !.head = n, !.tracks = @ \cup {t}, !.nodeCount = @ + 1]
      ELSE [q EXCEPT
              !.nodes = (n :> [value |-> t, prev |-> Null, next |-> Null]),
              !.head = n, !.tail = n, !.tracks = @ \cup {t}, !.nodeCount = @ + 1]

\* add(track)
QueueAdd(q, t) ==
  LET n == QueueNode(q)
  IN  IF q.head # Null
      THEN [q EXCEPT
              !.nodes = [@ EXCEPT ![q.tail].next = n]
                          @@ (n :> [value |-> t, prev |-> q.tail, next |-> Null]),
              !.tail = n, !.tracks = @ \cup {t}, !.nodeCount = @ + 1]
      ELSE [q EXCEPT
              !.nodes = @ @@ (n :> [value |-> t, prev |-> Null, next |-> Null]),
              !.head = n, !.tail = n, !.tracks = @ \cup {t}, !.nodeCount = @ + 1]

\* an unshift that links the new node forward only
QueueUnshiftMutOneWay(q, t) ==
  LET n == QueueNode(q)
  IN  IF q.head # Null
      THEN [q EXCEPT
              !.nodes = @ @@ (n :> [value |-> t, prev |-> Null, next |-> q.head]),
              !.head = n, !.tracks = @ \cup {t}, !.nodeCount = @ + 1]
      ELSE [q EXCEPT
              !.nodes = @ @@ (n :> [value |-> t, prev |-> Null, next |-> Null]),
              !.head = n, !.tail = n, !.tracks = @ \cup {t}, !.nodeCount = @ + 1]

\* unshift(track)
QueueUnshift(q, t) ==
  LET n == QueueNode(q)
  IN  IF q.head # Null
      THEN [q EXCEPT
              !.nodes = [@ EXCEPT ![q.head].prev = n]
                          @@ (n :> [value |-> t, prev |-> Null, next |-> q.head]),
              !.head = n, !.tracks = @ \cup {t}, !.nodeCount = @ + 1]
      ELSE [q EXCEPT
              !.nodes = @ @@ (n :> [value |-> t, prev |-> Null, next |-> Null]),
              !.head = n, !.tail = n, !.tracks = @ \cup {t}, !.nodeCount = @ + 1]

\* the QueueNode objects no longer referenced are dropped
Drop(nodes, n) == [i \in (DOMAIN nodes) \ {n} |-> nodes[i]]

QueueGetMutIgnoresStart(q, position) ==
  IF position < 0 \/ position >= q.nodeCount
  THEN [threw |-> TRUE, value |-> Null]
  ELSE [threw |-> FALSE, value |-> q.nodes[Follow(q, q.head, position)].value]

\* get(position): the track, or the thrown 'Position out of bounds'
QueueGet(q, position) ==
  LET adjustedPosition == position - q.startIndex
  IN  IF adjustedPosition < 0 \/ adjustedPosition >= q.nodeCount
      THEN [threw |-> TRUE, value |-> Null]
      ELSE [threw |-> FALSE,
            value |-> q.nodes[Follow(q, q.head, adjustedPosition)].value]

\* remove(position): the queue afterwards and the returned boolean
QueueRemove(q, position) ==
  LET adjustedPosition == position - q.startIndex
  IN  IF adjustedPosition < 0 \/ adjustedPosition >= q.nodeCount
      THEN [queue |-> q, ret |-> FALSE]
      ELSE
        LET current == Follow(q, q.head, adjustedPosition)
            c == q.nodes[current]
            n1 == IF c.prev # Null
                  THEN [q.nodes EXCEPT ![c.prev].next = c.next] ELSE q.nodes
            n2 == IF c.next # Null
                  THEN [n1 EXCEPT ![c.next].prev = c.prev] ELSE n1
        IN  [queue |-> [q EXCEPT
                          !.head = IF current = q.head THEN c.next ELSE @,
                          !.tail = IF current = q.tail THEN c.prev ELSE @,
                          !.nodes = Drop(n2, current),
                          !.tracks = @ \ {c.value},
                          !.nodeCount = @ - 1],
             ret |-> TRUE]

\* shift(): the queue afterwards and the returned track, or 'Queue is empty'
QueueShift(q) ==
  IF q.head = Null
  THEN [queue |-> q, threw |-> TRUE, value |-> Null]
  ELSE
    LET h == q.nodes[q.head]
        n1 == IF h.next # Null
              THEN [q.nodes EXCEPT ![h.next].prev = Null] ELSE q.nodes
    IN  [queue |-> [q EXCEPT
                      !.head = h.next,
                      !.tail = IF h.next = Null THEN Null ELSE @,
                      !.nodes = Drop(n1, q.head),
                      !.tracks = @ \ {h.value},
                      !.nodeCount = @ - 1],
         threw |-> FALSE, value |-> h.value]

\* pop()
QueuePop(q) ==
  IF q.tail = Null
  THEN [queue |-> q, threw |-> TRUE, value |-> Null]
  ELSE
    LET l == q.nodes[q.tail]
        n1 == IF l.prev # Null
              THEN [q.nodes EXCEPT ![l.prev].next = Null] ELSE q.nodes
    IN  [queue |-> [q EXCEPT
                      !.tail = l.prev,
                      !.head = IF l.prev = Null THEN Null ELSE @,
                      !.nodes = Drop(n1, q.tail),
                      !.tracks = @ \ {l.value},
                      !.nodeCount = @ - 1],
         threw |-> FALSE, value |-> l.value]

\* clear()
QueueClear(q) ==
  [q EXCEPT !.nodes = <<>>, !.head = Null, !.tail = Null, !.nodeCount = 0,
            !.tracks = {}]

\* a swap that loses positions[j]'s old partner: only positions[i] is written
SwapValuesMutOverwrites(q, positions, i, j) ==
  IF i # j
  THEN [q EXCEPT !.nodes =
          [@ EXCEPT ![positions[i + 1]].value = q.nodes[positions[j + 1]].value]]
  ELSE q

\* one step of shuffle's loop: positions[i] and positions[j] exchange values
\* (i and j count from 0, as in the code)
SwapValues(q, positions, i, j) ==
  IF i # j
  THEN [q EXCEPT !.nodes =
          [@ EXCEPT ![positions[i + 1]].value = q.nodes[positions[j + 1]].value,
                    ![positions[j + 1]].value = q.nodes[positions[i + 1]].value]]
  ELSE q

\* the loop of shuffle from index i down to 1; js[i] is the value of
\* Math.floor(Math.random() * (i + 1)) drawn at index i
RECURSIVE ShuffleLoop(_, _, _, _)
ShuffleLoop(q, positions, i, js) ==
  IF i <= 0 THEN q
  ELSE ShuffleLoop(SwapValues(q, positions, i, js[i]), positions, i - 1, js)

\* the draws shuffle can make on a queue of n nodes
ShuffleDraws(n) == {js \in [1..(n - 1) -> 0..(n - 1)] : \A i \in 1..(n - 1) : js[i] <= i}

\* shuffle(): throws below two nodes, else permutes the node values
QueueShuffle(q, js) ==
  IF q.nodeCount < 2
  THEN [queue |-> q, threw |-> TRUE]
  ELSE [queue |-> ShuffleLoop(q, Forward(q, q.head, Cardinality(DOMAIN q.nodes) + 1),
                              q.nodeCount - 1, js),
        threw |-> FALSE]


\* ------------------------------------------------------------------ state
VARIABLES
  queue,      \* a LilyQueue the host drives directly
  qlast,      \* the last call on it: op, argument, result, the queue before
  addLog,     \* the tracks handed to add, in call order
  shiftLog,   \* the tracks returned by shift, in call order
  player,     \* the LilyPlayer of guild 1
  previousInArray, \* manager.options.previousInArray
  autoplay,   \* the suspended handleAutoPlay continuations (their sources)
  fx,         \* what the last player / frame operation did, in order
  plast,      \* the last player / frame operation: op, inputs, player before
  nstate,     \* LilyNode.state
  socket,     \* LilyNode.socket: "null", or the WebSocket's readyState
  listeners,  \* whether the node's handlers are bound to that socket
  reconnectTimeout, \* LilyNode.reconnectTimeout: "unset", "pending", "fired", "cleared"
  reconnectAttempts, \* LilyNode.reconnectAttempts
  initialized, \* LilyManager.initialized
  nlast,      \* the last node operation and the notifications it emitted
  sessionId,  \* LilyNode.sessionId ('' is 0)
  stats,      \* LilyNode.stats (the initial zeros are 0)
  info,       \* LilyNode.info / version (undefined is 0)
  infoPending, \* rest.getInfo() calls of handleReadyPayload still awaited
  destroyed,  \* destroy() was called on the node
  gaveUp,     \* close() found the retries used up
  reconnects, \* nodeReconnect notifications emitted since construction
  ncache,     \* LilyNodeManager.cache: identifier -> node object
  pcache,     \* LilyPlayerManager.cache: guildId -> player object
  nobjs,      \* node objects constructed so far
  pobjs,      \* player objects constructed so far
  deleting,   \* guildId -> REST deletes in flight for players.delete
  rlast,      \* the last registry operation: op, inputs, result, emitted, caches before
  now,        \* Date.now()
  adapter,    \* the class of the cache adapter: "map" or "weakmap"
  cacheOptions, \* CacheAdapter.options: ttl (undefined is 0), revalidate
  store,      \* the adapter's entries in insertion order: key, value, expires, id
  reval,      \* the revalidate calls awaiting their producer
  clast,      \* the last cache operation: op, key, result, notifications
  expiredLog, \* entry id -> cacheExpired notifications emitted for it
  origin,     \* guildId -> version of the player held by the Lavalink server
  mutations,  \* the rest.update / rest.destroy calls in flight
  mutated,    \* guildId -> origin version of the last completed mutation
  olast,      \* the last getPlayer answer: guild, version, whether from the cache
  voiceOf,    \* guildId -> voice handshake and connection fields of its player
  vlast,      \* the last voice packet handled: type, guild, user, effects
  sortPlayersByRegion, \* manager.options.sortPlayersByRegion
  playerVariant, \* which of the two LilyPlayer sources is built: 1 or 2
  filters,    \* player.filters (LilyFilters), its timers and the REST updates it sent
  destroyCalled \* the player objects on which destroy() has been called

qvars == <<queue, qlast, addLog, shiftLog>>
pvars == <<player, previousInArray, autoplay, fx, plast>>
nvars == <<nstate, socket, listeners, reconnectTimeout, reconnectAttempts,
           initialized, nlast, sessionId, stats, info, infoPending,
           destroyed, gaveUp, reconnects>>
rvars == <<ncache, pcache, nobjs, pobjs, deleting, rlast>>
cvars == <<now, adapter, cacheOptions, store, reval, clast, expiredLog>>
ovars == <<origin, mutations, mutated, olast>>
vvars == <<voiceOf, vlast, sortPlayersByRegion>>
evars == <<cvars, ovars, vvars, playerVariant, filters, destroyCalled>>
vars == <<qvars, pvars, nvars, rvars, evars>>

\* PlayerLoop
LoopOff == 0
LoopTrack == 1
LoopQueue == 2
\* LilyNodeState
CONNECTING == 0
CONNECTED == 1
DISCONNECTING == 2
DISCONNECTED == 3

\* TrackEndEvent reasons of the protocol
Reasons == {"finished", "loadFailed", "stopped", "replaced", "cleanup"}

\* FilterMap names modelled: one with a validated range, one without
FilterNames == {"volume", "timescale"}
\* VALIDATION_RANGES.volume
FilterVolumeMin == 0 - 50
FilterVolumeMax == 50
\* the values a caller sets: null, values in range, a volume out of range
NumFilterValues == 2
FilterValues == {0} \cup (1..NumFilterValues) \cup {FilterVolumeMax + 1}
\* UPDATE_DEBOUNCE_MS in clock ticks, the last tick, most timers ever created,
\* most REST filter updates ever sent
DebounceTicks == 2
MaxFilterClock == 4
MaxTimers == 3
MaxFilterUpdates == 2

\* new LilyFilters(player) of a new player: every filter null (player.data is
\* empty), no timer; with the timers of the event loop, the REST updates sent
\* and in flight, and the sets accepted since the last update
FiltersNew ==
  [filterList |-> [n \in FilterNames |-> 0], data |-> [n \in FilterNames |-> 0],
   updateTimeout |-> 0, timers |-> {}, created |-> 0, clock |-> 0,
   sent |-> <<>>, inflight |-> <<>>, destroyed |-> FALSE,
   lastSet |-> [n \in FilterNames |-> 0], lastSetAt |-> 0, sets |-> 0,
   last |-> [op |-> "new", name |-> "", value |-> 0, threw |-> FALSE, n |-> 0]]

\* LilyTrack.sourceName of a track object
SourceName(t) ==
  IF t = Null THEN "none"
  ELSE CASE t % 4 = 1 -> "youtube"
         [] t % 4 = 2 -> "spotify"
         [] t % 4 = 3 -> "soundcloud"
         [] OTHER -> "bandcamp"

\* ------------------------------------------------------------------ effects
Emit(name) == [k |-> "emit", n |-> name]
\* node.rest.update({guildId, data})
RestUpdate(data) == [k |-> "rest", n |-> "update", d |-> data]
\* node.rest.destroy(guildId)
RestDestroy == [k |-> "rest", n |-> "destroy"]
\* manager.sendPayload(guildId, {op: 4, d: {channel_id, ...}})
SendPayload(channel) == [k |-> "payload", n |-> "op4", c |-> channel]
Call(name) == [k |-> "call", n |-> name]

Indices(s, kind, name) == {i \in 1..Len(s) : s[i].k = kind /\ s[i].n = name}
Count(s, kind, name) == Cardinality(Indices(s, kind, name))

\* ------------------------------------------------------------------ player
\* new LilyPlayer(manager, config); previous is kept as a list in both modes:
\* empty for null, one entry for the single slot
PlayerNew(config) ==
  [guildId |-> config.guildId, connected |-> FALSE, playing |-> FALSE,
   paused |-> FALSE, volume |-> 100, loop |-> config.loop,
   autoPlay |-> config.autoPlay, autoLeave |-> config.autoLeave,
   current |-> Null,
   previous |-> <<>>,
   queue |-> QueueNew(config.queueStartIndex)]

\* connect()
PlayerConnect(p) ==
  [player |-> [p EXCEPT !.connected = TRUE],
   fx |-> <<SendPayload("voice"), Emit("playerConnected"), Call("cacheState")>>]

\* disconnect()
PlayerDisconnect(p) ==
  [player |-> [p EXCEPT !.connected = FALSE],
   fx |-> <<SendPayload("null"), Emit("playerDisconnected"), Call("cacheState")>>]

\* a play() that submits the default volume instead of the player's
PlayerPlayMutDefaultVolume(p) ==
  IF QueueSize(p.queue) = 0
  THEN [player |-> p, fx |-> <<Call("play")>>, ret |-> FALSE]
  ELSE
    LET sh == QueueShift(p.queue)
    IN  [player |-> [p EXCEPT !.current = sh.value, !.queue = sh.queue,
                              !.playing = TRUE],
         fx |-> <<Call("play"),
                  RestUpdate([track |-> Encoded(sh.value), volume |-> 100]),
                  Emit("playerTriggeredPlay"), Call("cacheState")>>,
         ret |-> TRUE]

\* play()
PlayerPlay(p) ==
  IF QueueSize(p.queue) = 0
  THEN [player |-> p, fx |-> <<Call("play")>>, ret |-> FALSE]
  ELSE
    LET sh == QueueShift(p.queue)
    IN  [player |-> [p EXCEPT !.current = sh.value, !.queue = sh.queue,
                              !.playing = TRUE],
         fx |-> <<Call("play"),
                  RestUpdate([track |-> Encoded(sh.value), volume |-> p.volume]),
                  Emit("playerTriggeredPlay"), Call("cacheState")>>,
         ret |-> TRUE]

\* destroy(): players.delete starts its REST delete when the guild is registered
PlayerDestroy(p, registered) ==
  LET d == IF p.connected THEN PlayerDisconnect(p) ELSE [player |-> p, fx |-> <<>>]
  IN  [player |-> [d.player EXCEPT !.queue = QueueClear(@)],
       fx |-> <<Call("destroy")>> \o d.fx
                \o (IF registered THEN <<RestDestroy>> ELSE <<>>)
                \o <<Call("invalidateCache"), Emit("playerDestroyed")>>]

\* a pause() without the early return
PlayerPauseMutNoGuard(p) ==
  [player |-> [p EXCEPT !.paused = TRUE],
   fx |-> <<RestUpdate([paused |-> TRUE]), Emit("playerTriggeredPause"),
            Call("cacheState")>>,
   ret |-> TRUE]

\* pause()
PlayerPause(p) ==
  IF p.paused
  THEN [player |-> p, fx |-> <<>>, ret |-> TRUE]
  ELSE [player |-> [p EXCEPT !.paused = TRUE],
        fx |-> <<RestUpdate([paused |-> TRUE]), Emit("playerTriggeredPause"),
                 Call("cacheState")>>,
        ret |-> TRUE]

\* resume()
PlayerResume(p) ==
  IF ~p.paused
  THEN [player |-> p, fx |-> <<>>, ret |-> TRUE]
  ELSE [player |-> [p EXCEPT !.paused = FALSE],
        fx |-> <<RestUpdate([paused |-> FALSE]), Emit("playerTriggeredResume"),
                 Call("cacheState")>>,
        ret |-> TRUE]

\* a shuffle() that notifies whatever the queue holds
PlayerShuffleMutNoGuard(p, js) ==
  [player |-> [p EXCEPT !.queue = QueueShuffle(p.queue, js).queue],
   fx |-> <<Emit("playerTriggeredShuffle"), Call("cacheState")>>,
   ret |-> TRUE]

\* shuffle(); js are the random draws of the queue's shuffle
PlayerShuffle(p, js) ==
  IF QueueSize(p.queue) < 2
  THEN [player |-> p, fx |-> <<>>, ret |-> FALSE]
  ELSE [player |-> [p EXCEPT !.queue = QueueShuffle(p.queue, js).queue],
        fx |-> <<Emit("playerTriggeredShuffle"), Call("cacheState")>>,
        ret |-> TRUE]

\* the bound of setVolume's validator: min(1) in the first player source,
\* min(0) in the second, max(100) in both
VolumeMin(variant) == IF variant = 1 THEN 1 ELSE 0
VolumeMax == 100

\* a setVolume() that validates nothing
PlayerSetVolumeMutNoValidate(p, volume, variant) ==
  [player |-> [p EXCEPT !.volume = volume],
   fx |-> <<RestUpdate([volume |-> volume]), Emit("playerChangedVolume")>>
          \o (IF variant = 1 THEN <<Call("cacheState")>> ELSE <<>>),
   ret |-> TRUE, threw |-> FALSE]

\* setVolume(volume): validate throws before anything is touched
PlayerSetVolume(p, volume, variant) ==
  IF volume < VolumeMin(variant) \/ volume > VolumeMax
  THEN [player |-> p, fx |-> <<>>, ret |-> FALSE, threw |-> TRUE]
  ELSE [player |-> [p EXCEPT !.volume = volume],
        fx |-> <<RestUpdate([volume |-> volume]), Emit("playerChangedVolume")>>
               \o (IF variant = 1 THEN <<Call("cacheState")>> ELSE <<>>),
        ret |-> TRUE, threw |-> FALSE]

\* stop(options)
PlayerStop(p, destroy, registered) ==
  IF ~p.playing
  THEN [player |-> p, fx |-> <<>>, ret |-> FALSE]
  ELSE
    LET upd == RestUpdate([track |-> Null])
        d == IF destroy THEN PlayerDestroy(p, registered)
             ELSE [player |-> [p EXCEPT !.queue = QueueClear(@)], fx |-> <<>>]
    IN  [player |-> [d.player EXCEPT !.playing = FALSE],
         fx |-> <<upd>> \o d.fx \o <<Emit("playerTriggeredStop"), Call("cacheState")>>,
         ret |-> TRUE]


\* ------------------------------------------------------------------ frames
\* most handleAutoPlay continuations suspended at once
MaxPendingAutoPlay == 1
\* longest previous list kept (previousInArray)
MaxPrevious == 1
\* longest queue of the player
MaxPlayerQueue == 2

\* manager.emit('trackEnd', player, player.current, payload.reason, payload):
\* the listeners receive the player as it is at that moment
EmitTrackEnd(p, reason) ==
  [k |-> "emit", n |-> "trackEnd", r |-> reason, playing |-> p.playing,
   paused |-> p.paused, previous |-> p.previous, current |-> p.current]
Throw(name) == [k |-> "throw", n |-> name]

\* new Track({...payload.track, encoded: player.current?.encoded})
ArchivedTrack(payloadTrack, current) ==
  [track |-> payloadTrack, encoded |-> Encoded(current)]

\* a handleTrackEnd that notifies before it clears the flags and archives
ArchiveEndedMutAfterEmit(p, payloadTrack, inArray) == p

\* handleTrackEnd, lines 317-332: the flags and the previous track
ArchiveEnded(p, payloadTrack, inArray) ==
  [p EXCEPT !.playing = FALSE, !.paused = FALSE,
            !.previous = IF inArray
                         THEN Append(@, ArchivedTrack(payloadTrack, p.current))
                         ELSE <<ArchivedTrack(payloadTrack, p.current)>>]

HandleFailedTrackMutEndsQueue(p) ==
  IF QueueSize(p.queue) # 0
  THEN [player |-> PlayerPlay(p).player, fx |-> PlayerPlay(p).fx]
  ELSE [player |-> [p EXCEPT !.queue = QueueClear(@), !.current = Null],
        fx |-> <<Emit("queueEnd")>>]

HandleFailedTrackMutSkipsPlay(p) ==
  [player |-> [p EXCEPT !.queue = QueueClear(@)], fx |-> <<>>]

\* handleFailedTrack(player)
HandleFailedTrack(p) ==
  IF QueueSize(p.queue) # 0
  THEN [player |-> PlayerPlay(p).player, fx |-> PlayerPlay(p).fx]
  ELSE [player |-> [p EXCEPT !.queue = QueueClear(@)], fx |-> <<>>]

HandleTrackLoopMutAdvances(p) ==
  IF p.current = Null
  THEN [player |-> p, fx |-> <<Throw("TypeError")>>]
  ELSE [player |-> PlayerPlay(p).player, fx |-> PlayerPlay(p).fx]

\* handleTrackLoop(player): player.current.encoded throws on a null current
HandleTrackLoop(p) ==
  IF p.current = Null
  THEN [player |-> p, fx |-> <<Throw("TypeError")>>]
  ELSE [player |-> p, fx |-> <<RestUpdate([track |-> Encoded(p.current)])>>]

\* track.position = 0; track.time = 0, on the track object itself
ResetTrack(t) == [k |-> "set", n |-> "position, time", t |-> t, to |-> 0]

\* a handleQueueLoop that plays on without requeueing the track that ended
HandleQueueLoopMutDropsCurrent(p) ==
  [player |-> PlayerPlay(p).player, fx |-> <<ResetTrack(p.current)>> \o PlayerPlay(p).fx]

\* handleQueueLoop(player)
HandleQueueLoop(p) ==
  LET p1 == [p EXCEPT !.queue = QueueAdd(@, p.current)]
  IN  [player |-> PlayerPlay(p1).player,
       fx |-> <<ResetTrack(p.current)>> \o PlayerPlay(p1).fx]

\* handleAutoPlay(player, payload) up to its first suspension: whether a
\* continuation (the search, or the recommendation promise) is left pending
AutoPlayStarts(p, reason) ==
  /\ reason # "stopped"
  /\ p.autoPlay
  /\ SourceName(p.current) \in {"youtube", "spotify", "soundcloud"}

\* an end of the queue that keeps the current track and leaves at once
HandleQueueEndMutAlwaysLeaves(p, registered) ==
  [player |-> PlayerDestroy(p, registered).player,
   fx |-> <<Emit("queueEnd")>> \o PlayerDestroy(p, registered).fx]

\* handleTrackEnd, lines 371-379: the queue has run dry
HandleQueueEnd(p, registered) ==
  LET p2 == [p EXCEPT !.current = Null]
  IN  IF p2.autoLeave
      THEN [player |-> PlayerDestroy(p2, registered).player,
            fx |-> <<Emit("queueEnd")>> \o PlayerDestroy(p2, registered).fx]
      ELSE [player |-> p2, fx |-> <<Emit("queueEnd")>>]

\* handleTrackEnd(player, payload): the player afterwards, what was done, and
\* the autoplay continuation it left pending ("none", or the source)
HandleTrackEnd(p, reason, payloadTrack, inArray, registered) ==
  LET p1 == ArchiveEnded(p, payloadTrack, inArray)
      head == <<EmitTrackEnd(p1, reason)>>
      none == "none"
  IN  IF reason \in {"loadFailed", "cleanup"}
      THEN [player |-> HandleFailedTrack(p1).player,
            fx |-> head \o HandleFailedTrack(p1).fx, pending |-> none]
      ELSE IF reason = "replaced"
      THEN [player |-> p1, fx |-> head, pending |-> none]
      ELSE IF p1.loop = LoopTrack
      THEN [player |-> HandleTrackLoop(p1).player,
            fx |-> head \o HandleTrackLoop(p1).fx, pending |-> none]
      ELSE IF p1.loop = LoopQueue /\ p1.current # Null
      THEN [player |-> HandleQueueLoop(p1).player,
            fx |-> head \o HandleQueueLoop(p1).fx, pending |-> none]
      ELSE IF QueueSize(p1.queue) # 0
      THEN [player |-> PlayerPlay(p1).player,
            fx |-> head \o PlayerPlay(p1).fx, pending |-> none]
      ELSE IF p1.autoPlay
      THEN [player |-> p1, fx |-> head \o <<Call("handleAutoPlay")>>,
            pending |-> IF AutoPlayStarts(p1, reason)
                        THEN SourceName(p1.current) ELSE none]
      ELSE [player |-> HandleQueueEnd(p1, registered).player,
            fx |-> head \o HandleQueueEnd(p1, registered).fx, pending |-> none]


\* ------------------------------------------------------------------ node
\* The node as a record of the fields the reconnect machinery uses.
NodeRec ==
  [state |-> nstate, socket |-> socket, listeners |-> listeners,
   reconnectTimeout |-> reconnectTimeout, reconnectAttempts |-> reconnectAttempts]

\* connect(): a new WebSocket with the four handlers bound
NodeConnect(n) == [n EXCEPT !.socket = "connecting", !.listeners = TRUE]

\* reconnect(): the timer is set and nodeReconnect emitted
NodeReconnect(n) ==
  [node |-> [n EXCEPT !.reconnectTimeout = "pending"], fx |-> <<Emit("nodeReconnect")>>]

\* open()
NodeOpen(n) ==
  [node |-> [n EXCEPT !.reconnectTimeout = IF @ = "pending" THEN "cleared" ELSE @,
                      !.state = CONNECTED, !.socket = "open"],
   fx |-> <<Emit("nodeConnected")>>]

\* cleanupSocket(): removeAllListeners() and close() on the socket, if any
CleanupSocket(n) ==
  IF n.socket = "null" THEN n
  ELSE [n EXCEPT !.listeners = FALSE,
                 !.socket = IF @ \in {"connecting", "open"} THEN "closing" ELSE @]

NodeCloseMutRetriesForever(n) ==
  LET n1 == [n EXCEPT !.socket = "closed",
                      !.state = IF @ = CONNECTED THEN DISCONNECTED ELSE @]
      n2 == CleanupSocket(n1)
  IN  [node |-> NodeReconnect(n2).node,
       fx |-> NodeReconnect(n2).fx \o <<Emit("nodeDisconnect")>>, gaveUp |-> FALSE]

\* close(code, reason), run by the socket's close event
NodeClose(n) ==
  LET n1 == [n EXCEPT !.socket = "closed",
                      !.state = IF @ = CONNECTED THEN DISCONNECTED ELSE @]
      n2 == CleanupSocket(n1)
  IN  IF RetryAmount > n2.reconnectAttempts
      THEN [node |-> NodeReconnect(n2).node,
            fx |-> NodeReconnect(n2).fx \o <<Emit("nodeDisconnect")>>,
            gaveUp |-> FALSE]
      ELSE [node |-> [n2 EXCEPT !.socket = "null", !.state = DISCONNECTED],
            fx |-> <<Emit("nodeDisconnect")>>, gaveUp |-> TRUE]

\* a timer callback that reconnects without counting the attempt
NodeTimerFiresMutNoCount(n) ==
  NodeConnect([n EXCEPT !.reconnectTimeout = "fired"])

\* the callback of reconnect()'s timer
NodeTimerFires(n) ==
  NodeConnect([n EXCEPT !.reconnectAttempts = @ + 1, !.reconnectTimeout = "fired"])

\* destroy(): socket?.close() and the state
NodeDestroy(n) ==
  [n EXCEPT !.socket = IF @ \in {"connecting", "open"} THEN "closing" ELSE @,
            !.state = DISCONNECTED]

SetNode(n) ==
  /\ nstate' = n.state
  /\ socket' = n.socket
  /\ listeners' = n.listeners
  /\ reconnectTimeout' = n.reconnectTimeout
  /\ reconnectAttempts' = n.reconnectAttempts


\* ------------------------------------------------------------------ player spec
\* most REST deletes of players.delete in flight for one guild
MaxDeleting == 1

Registered(p) == p.guildId \in DOMAIN pcache

\* the frames of the node reach its handlers
Receiving == listeners /\ socket \in {"open", "closing"}

\* players.delete(guildId) up to its await: the REST delete is in flight
StartDelete(g, n) == [deleting EXCEPT ![g] = @ + n]

Done(op, gen) ==
  /\ player' = gen.player
  /\ fx' = gen.fx
  /\ plast' = op
  /\ deleting' = StartDelete(player.guildId, Count(gen.fx, "rest", "destroy"))
  /\ deleting'[player.guildId] <= MaxDeleting

\* player.queue.add(track), by the host
HostAdd(t) ==
  /\ QueueSize(player.queue) < MaxPlayerQueue
  /\ Done([op |-> "queue.add", track |-> t, reason |-> "", ret |-> TRUE],
          [player |-> [player EXCEPT !.queue = QueueAdd(@, t)], fx |-> <<>>])
  /\ UNCHANGED <<qvars, nvars, previousInArray, autoplay, ncache, pcache, nobjs, pobjs, rlast, evars>>

\* player.play(), by the host; the record keeps the track that was current
\* at the call, which the server reports as replaced when play() succeeds
HostPlay ==
  /\ \E r \in {PlayerPlay(player)} :
       Done([op |-> "play", track |-> player.current, reason |-> "", ret |-> r.ret], r)
  /\ UNCHANGED <<qvars, nvars, previousInArray, autoplay, ncache, pcache, nobjs, pobjs, rlast, evars>>

\* player.stop({destroy}), by the host
HostStop(destroy) ==
  \E r \in {PlayerStop(player, destroy, Registered(player))} :
      /\ Done([op |-> "stop", track |-> Null,
               reason |-> IF destroy THEN "destroy" ELSE "", ret |-> r.ret], r)
      /\ UNCHANGED <<qvars, nvars, previousInArray, autoplay, ncache, pcache, nobjs, pobjs, rlast, evars>>

\* an event frame of type TrackStartEvent: handleEventPayload, handleTrackStart
TrackStart ==
  /\ Receiving /\ Registered(player)
  /\ Done([op |-> "TrackStartEvent", track |-> Null, reason |-> "", ret |-> TRUE],
          [player |-> [player EXCEPT !.playing = TRUE, !.paused = FALSE],
           fx |-> <<Emit("nodeRaw"), Emit("trackStart")>>])
  /\ UNCHANGED <<qvars, nvars, previousInArray, autoplay, ncache, pcache, nobjs, pobjs, rlast, evars>>

\* an event frame of type TrackEndEvent: handleEventPayload, handleTrackEnd
TrackEnd(reason, track) ==
  /\ Receiving /\ Registered(player)
  /\ \E r \in {HandleTrackEnd(player, reason, track, previousInArray, Registered(player))} :
      /\ Len(r.player.previous) <= MaxPrevious
      /\ Done([op |-> "TrackEndEvent", track |-> track, reason |-> reason, ret |-> TRUE],
              [player |-> r.player, fx |-> <<Emit("nodeRaw")>> \o r.fx])
      /\ autoplay' = IF r.pending = "none" THEN autoplay ELSE Append(autoplay, r.pending)
      /\ Len(autoplay') <= MaxPendingAutoPlay
      /\ UNCHANGED <<qvars, nvars, previousInArray, ncache, pcache, nobjs, pobjs, rlast, evars>>

\* handleAutoPlay after its suspension: the search found nothing usable
AutoPlayNothing(i) ==
  /\ i \in 1..Len(autoplay)
  /\ autoplay' = [j \in 1..(Len(autoplay) - 1) |-> autoplay[IF j < i THEN j ELSE j + 1]]
  /\ fx' = <<>>
  /\ plast' = [op |-> "autoplay", track |-> Null, reason |-> "nothing", ret |-> FALSE]
  /\ UNCHANGED <<qvars, nvars, player, previousInArray, rvars, evars>>

\* handleAutoPlay after its suspension: a track other than the current one
\* is drawn from the search result, queued and played
AutoPlayPicks(i, t) ==
  /\ i \in 1..Len(autoplay)
  /\ t # player.current
  /\ autoplay' = [j \in 1..(Len(autoplay) - 1) |-> autoplay[IF j < i THEN j ELSE j + 1]]
  /\ \E r \in {PlayerPlay([player EXCEPT !.queue = QueueAdd(@, t)])} :
       Done([op |-> "autoplay", track |-> t, reason |-> "picked", ret |-> TRUE], r)
  /\ UNCHANGED <<qvars, nvars, previousInArray, ncache, pcache, nobjs, pobjs, rlast, evars>>

\* handleAutoPlay after its suspension: the collaborator failed. The awaited
\* search of the youtube branch is caught and destroys the node; the
\* recommendation promises of the other branches are not awaited.
AutoPlayFails(i) ==
  /\ i \in 1..Len(autoplay)
  /\ autoplay' = [j \in 1..(Len(autoplay) - 1) |-> autoplay[IF j < i THEN j ELSE j + 1]]
  /\ fx' = IF autoplay[i] = "youtube" THEN <<Call("node.destroy")>> ELSE <<>>
  /\ plast' = [op |-> "autoplay", track |-> Null, reason |-> "failed", ret |-> FALSE]
  /\ IF autoplay[i] = "youtube"
     THEN /\ SetNode(NodeDestroy(NodeRec))
          /\ destroyed' = TRUE
          /\ UNCHANGED <<initialized, nlast, gaveUp, reconnects, sessionId, stats, info, infoPending>>
     ELSE UNCHANGED nvars
  /\ UNCHANGED <<qvars, player, previousInArray, rvars, evars>>

\* players.delete(guildId) after its await: the REST delete succeeded and the
\* entry is removed, or it failed and delete() rejects
DeleteSettles(g, ok) ==
  /\ deleting[g] > 0
  /\ deleting' = [deleting EXCEPT ![g] = @ - 1]
  /\ pcache' = IF ok THEN [h \in (DOMAIN pcache) \ {g} |-> pcache[h]] ELSE pcache
  /\ fx' = <<>>
  /\ plast' = [op |-> "delete settles", track |-> Null, reason |-> "", ret |-> ok]
  /\ rlast' = [op |-> "delete settles"]
  /\ UNCHANGED <<qvars, nvars, player, previousInArray, autoplay, ncache, nobjs, pobjs, evars>>

PlayerConfigs ==
  [guildId : {1}, loop : {LoopOff, LoopTrack, LoopQueue}, autoPlay : BOOLEAN,
   autoLeave : BOOLEAN, queueStartIndex : {0}]

QIdle ==
  /\ queue = QueueNew(0)
  /\ qlast = [op |-> "new", arg |-> 0, threw |-> FALSE, value |-> Null,
              pre |-> QueueNew(0)]
  /\ addLog = <<>>
  /\ shiftLog = <<>>

PIdle(config) ==
  /\ player = PlayerNew(config)
  /\ autoplay = <<>>
  /\ fx = <<>>
  /\ plast = [op |-> "new", track |-> Null, reason |-> "", ret |-> TRUE]

NIdle(st, so) ==
  /\ nstate = st
  /\ socket = so
  /\ listeners = (so # "null")
  /\ reconnectTimeout = "unset"
  /\ reconnectAttempts = 0
  /\ initialized = (so # "null")
  /\ nlast = [op |-> "new", fx |-> <<>>]
  /\ sessionId = 0
  /\ stats = 0
  /\ info = 0
  /\ infoPending = 0
  /\ destroyed = FALSE
  /\ gaveUp = FALSE
  /\ reconnects = 0

RIdle(nodes, players) ==
  /\ ncache = nodes
  /\ pcache = players
  /\ nobjs = Cardinality(DOMAIN nodes)
  /\ pobjs = Cardinality(DOMAIN players)
  /\ deleting = [g \in Guilds |-> 0]
  /\ rlast = [op |-> "new"]

\* the voice fields of a new LilyPlayer: voiceState {}, not connected, not
\* playing, in the configured voice channel (channel 1), no region
VoiceNew ==
  [token |-> Null, sessionId |-> Null, endpoint |-> Null, connected |-> FALSE,
   playing |-> FALSE, voiceChannel |-> 1, region |-> Null]

\* The manager's default cache adapter with nothing stored or in flight.
CIdle ==
  /\ now = 1
  /\ adapter = "weakmap"
  /\ cacheOptions = [ttl |-> 0, revalidate |-> FALSE]
  /\ store = <<>>
  /\ reval = <<>>
  /\ clast = [op |-> "new"]
  /\ expiredLog = <<>>

\* The Lavalink server with no REST mutation in flight.
OIdle ==
  /\ origin = [g \in Guilds |-> 1]
  /\ mutations = <<>>
  /\ mutated = [g \in Guilds |-> 0]
  /\ olast = [op |-> "new"]

\* No voice packet handled yet: every player's voiceState is {}.
VIdle ==
  /\ voiceOf = [g \in Guilds |-> VoiceNew]
  /\ vlast = [op |-> "new"]
  /\ sortPlayersByRegion = FALSE

EIdle ==
  /\ CIdle
  /\ OIdle
  /\ VIdle
  /\ playerVariant = 1
  /\ filters = FiltersNew
  /\ destroyCalled = {}

\* A manager with one connected node and the player of guild 1 just created.
Init ==
  /\ QIdle
  /\ previousInArray \in BOOLEAN
  /\ \E c \in PlayerConfigs : PIdle(c)
  /\ NIdle(CONNECTED, "open")
  /\ RIdle((1 :> [obj |-> 1, state |-> CONNECTED]), (1 :> [obj |-> 1, guildId |-> 1]))
  /\ EIdle

Next ==
  \/ \E t \in Tracks : HostAdd(t)
  \/ HostPlay
  \/ \E d \in BOOLEAN : HostStop(d)
  \/ TrackStart
  \/ \E r \in Reasons, t \in Tracks : TrackEnd(r, t)
  \/ \E i \in 1..MaxPendingAutoPlay : AutoPlayNothing(i)
  \/ \E i \in 1..MaxPendingAutoPlay, t \in Tracks : AutoPlayPicks(i, t)
  \/ \E i \in 1..MaxPendingAutoPlay : AutoPlayFails(i)
  \/ \E g \in Guilds, ok \in BOOLEAN : DeleteSettles(g, ok)

Spec == Init /\ [][Next]_vars


\* ------------------------------------------------------------------ track-end claims
\* the step just taken handled a TrackEndEvent with this reason
EndedWith(reasons) ==
  /\ plast'.op = "TrackEndEvent"
  /\ plast'.reason \in reasons
  /\ fx'[1] = Emit("nodeRaw")

\* C1: a TrackEndEvent with reason loadFailed handled while the queue is not
\* empty calls play() exactly once - the queue head becomes the current track
\* and the queue loses exactly that entry - and emits no queueEnd.
C1_LoadFailedPlaysNext ==
  [][ (EndedWith({"loadFailed"}) /\ QueueSize(player.queue) > 0) =>
        /\ Count(fx', "call", "play") = 1
        /\ Count(fx', "emit", "playerTriggeredPlay") = 1
        /\ player'.current = QueueValues(player.queue)[1]
        /\ QueueValues(player'.queue) = Tail(QueueValues(player.queue))
        /\ QueueSize(player'.queue) = QueueSize(player.queue) - 1
        /\ Count(fx', "emit", "queueEnd") = 0 ]_vars

C1_Witness ==
  /\ plast.op = "TrackEndEvent" /\ plast.reason = "loadFailed"
  /\ Count(fx, "call", "play") = 1
  /\ player.playing
  /\ QueueSize(player.queue) = 1

\* C2 as claimed: a TrackEndEvent with reason loadFailed handled while the
\* queue is empty clears the queue, emits queueEnd, and destroys the player
\* if and only if auto-leave is set.
C2_AsClaimed ==
  [][ (EndedWith({"loadFailed"}) /\ QueueSize(player.queue) = 0) =>
        /\ QueueSize(player'.queue) = 0
        /\ Count(fx', "emit", "queueEnd") = 1
        /\ (Count(fx', "call", "destroy") = 1) <=> player.autoLeave ]_vars

\* C2 amended: a TrackEndEvent with reason loadFailed handled while the queue
\* is empty leaves the queue empty and does nothing more: no queueEnd is
\* emitted, the current track stays, and the player is not destroyed, with
\* auto-leave set or not.
C2_LoadFailedEmptyOnlyClears ==
  [][ (EndedWith({"loadFailed"}) /\ QueueSize(player.queue) = 0) =>
        /\ QueueSize(player'.queue) = 0
        /\ QueueValues(player'.queue) = <<>>
        /\ Count(fx', "emit", "queueEnd") = 0
        /\ Count(fx', "call", "destroy") = 0
        /\ Count(fx', "call", "play") = 0
        /\ player'.current = player.current ]_vars

C2_Witness ==
  /\ plast.op = "TrackEndEvent" /\ plast.reason = "loadFailed"
  /\ Count(fx, "call", "play") = 0
  /\ player.autoLeave
  /\ player.current # Null
  /\ QueueSize(player.queue) = 0

\* C3: with loop mode TRACK, a track end whose reason is not loadFailed,
\* cleanup or replaced, handled while there is a current track, sends the node
\* exactly one update, carrying that track's encoded payload, and leaves the
\* queue (contents, order, size) and the current track as they were.
C3_TrackLoopResubmits ==
  [][ (/\ EndedWith(Reasons \ {"loadFailed", "cleanup", "replaced"})
       /\ player.loop = LoopTrack
       /\ player.current # Null) =>
        /\ Count(fx', "rest", "update") = 1
        /\ \A i \in Indices(fx', "rest", "update") :
             fx'[i].d = [track |-> Encoded(player.current)]
        /\ player'.queue = player.queue
        /\ QueueValues(player'.queue) = QueueValues(player.queue)
        /\ player'.current = player.current ]_vars

C3_Witness ==
  /\ plast.op = "TrackEndEvent" /\ plast.reason = "finished"
  /\ player.loop = LoopTrack
  /\ player.current # Null
  /\ QueueSize(player.queue) = 2
  /\ Count(fx, "rest", "update") = 1
  /\ ~player.playing


\* ------------------------------------------------------------------ node spec
frames == <<sessionId, stats, info, infoPending>>

NodeDone(op, n, emitted) ==
  /\ SetNode(n)
  /\ nlast' = [op |-> op, fx |-> emitted]

\* LilyManager.init -> LilyNodeManager.init -> node.connect(), once
ManagerInit ==
  /\ ~initialized
  /\ initialized' = TRUE
  /\ NodeDone("connect", NodeConnect(NodeRec), <<>>)
  /\ UNCHANGED <<destroyed, gaveUp, reconnects, frames, qvars, pvars, rvars, evars>>

\* the socket's open event
SocketOpens ==
  /\ listeners /\ socket = "connecting"
  /\ NodeDone("open", NodeOpen(NodeRec).node, NodeOpen(NodeRec).fx)
  /\ UNCHANGED <<initialized, destroyed, gaveUp, reconnects, frames, qvars, pvars, rvars, evars>>

\* the socket's close event: the connection failed, dropped, or was closed
SocketCloses ==
  /\ listeners /\ socket \in {"connecting", "open", "closing"}
  /\ NodeDone("close", NodeClose(NodeRec).node, NodeClose(NodeRec).fx)
  /\ gaveUp' = (gaveUp \/ ~(RetryAmount > reconnectAttempts))
  /\ reconnects' = reconnects + Count(NodeClose(NodeRec).fx, "emit", "nodeReconnect")
  /\ UNCHANGED <<initialized, destroyed, frames, qvars, pvars, rvars, evars>>

\* the socket's error event: error(error)
SocketErrors ==
  /\ listeners /\ socket \in {"connecting", "open", "closing"}
  /\ NodeDone("error", NodeRec, <<Emit("nodeError")>>)
  /\ UNCHANGED <<initialized, destroyed, gaveUp, reconnects, frames, qvars, pvars, rvars, evars>>

\* the timer set by reconnect() expires
ReconnectTimerFires ==
  /\ reconnectTimeout = "pending"
  /\ NodeDone("timer", NodeTimerFires(NodeRec), <<>>)
  /\ UNCHANGED <<initialized, destroyed, gaveUp, reconnects, frames, qvars, pvars, rvars, evars>>

\* node.destroy(), from LilyNodeManager.remove / cleanup or from the host
HostDestroysNode ==
  /\ initialized
  /\ NodeDone("destroy", NodeDestroy(NodeRec), <<>>)
  /\ destroyed' = TRUE
  /\ UNCHANGED <<initialized, gaveUp, reconnects, frames, qvars, pvars, rvars, evars>>

\* a parsePayload that swallows the failure
ParsePayloadMutSilent(parseable) == [payload |-> parseable, fx |-> <<>>]

\* LilyNode.parsePayload(data): whether a payload comes back, and what the
\* catch of JSON.parse emits through error()
ParsePayload(parseable) ==
  [payload |-> parseable,
   fx |-> IF parseable THEN <<>> ELSE <<Emit("nodeError")>>]

\* a frame that JSON.parse rejects: parsePayload reports it through error()
FrameMalformed ==
  /\ Receiving
  /\ \E r \in {ParsePayload(FALSE)} :
       /\ ~r.payload
       /\ NodeDone("malformed", NodeRec, r.fx)
  /\ UNCHANGED <<initialized, destroyed, gaveUp, reconnects, frames, qvars, pvars, rvars, evars>>

\* a frame with op 'stats': handleStatsPayload
FrameStats(st) ==
  /\ Receiving
  /\ stats' = st
  /\ NodeDone("message", NodeRec, <<>>)
  /\ UNCHANGED <<initialized, destroyed, gaveUp, reconnects, sessionId, info, infoPending,
                 qvars, pvars, rvars, evars>>

\* a frame with op 'ready': handleReadyPayload up to its await of getInfo()
FrameReady(sid) ==
  /\ Receiving
  /\ infoPending < MaxInfoPending
  /\ sessionId' = sid
  /\ infoPending' = infoPending + 1
  /\ NodeDone("message", NodeRec, <<>>)
  /\ UNCHANGED <<initialized, destroyed, gaveUp, reconnects, stats, info, qvars, pvars, rvars, evars>>

\* handleReadyPayload after its await: info, version and nodeReady
InfoArrives(version) ==
  /\ infoPending > 0
  /\ infoPending' = infoPending - 1
  /\ info' = version
  /\ NodeDone("getInfo", NodeRec, <<Emit("nodeReady")>>)
  /\ UNCHANGED <<initialized, destroyed, gaveUp, reconnects, sessionId, stats, qvars, pvars, rvars, evars>>

\* A manager whose node was constructed and not yet connected.
InitNode ==
  /\ QIdle
  /\ previousInArray = FALSE
  /\ PIdle([guildId |-> 1, loop |-> LoopOff, autoPlay |-> FALSE,
            autoLeave |-> FALSE, queueStartIndex |-> 0])
  /\ NIdle(CONNECTING, "null")
  /\ RIdle((1 :> [obj |-> 1, state |-> CONNECTING]), <<>>)
  /\ EIdle

NextNode ==
  \/ ManagerInit
  \/ SocketOpens
  \/ SocketCloses
  \/ SocketErrors
  \/ ReconnectTimerFires
  \/ HostDestroysNode
  \/ FrameMalformed
  \/ \E st \in 1..NumStats : FrameStats(st)
  \/ \E sid \in 1..NumSessions : FrameReady(sid)
  \/ \E v \in 1..NumVersions : InfoArrives(v)

SpecNode == InitNode /\ [][NextNode]_vars

\* C4: from the close that finds the reconnect counter no longer below
\* retryAmount the node is DISCONNECTED, has no socket and no pending
\* reconnect timer, and no step emits nodeReconnect any more.
C4_SettlesDisconnected ==
  gaveUp =>
    /\ nstate = DISCONNECTED
    /\ socket = "null"
    /\ reconnectTimeout # "pending"
    /\ Count(nlast.fx, "emit", "nodeReconnect") = 0
    /\ reconnectAttempts >= RetryAmount

C4_Witness ==
  /\ gaveUp
  /\ ~destroyed
  /\ nlast.op = "close"
  /\ reconnectAttempts = RetryAmount

\* C5 as claimed: once destroy() was called the node is never CONNECTED
\* again, no close schedules a reconnect or emits nodeReconnect, and no
\* reconnect timer fires connect().
C5_AsClaimed ==
  destroyed =>
    /\ nstate # CONNECTED
    /\ Count(nlast.fx, "emit", "nodeReconnect") = 0
    /\ nlast.op # "timer"


\* ------------------------------------------------------------------ registries
\* LilyNodeManager.maxCacheSize
maxCacheSize == 100

Without(f, k) == [x \in (DOMAIN f) \ {k} |-> f[x]]

\* add(options): identifier ?? host names the node
NodeKey(options) == IF options.identifier # Null THEN options.identifier ELSE options.host

NodesAddMutOverwrites(cache, objs, options) ==
  IF Cardinality(DOMAIN cache) >= maxCacheSize \/ ~options.valid
  THEN [cache |-> cache, objs |-> objs, threw |-> TRUE, fx |-> <<>>]
  ELSE [cache |-> Without(cache, NodeKey(options))
                    @@ (NodeKey(options) :> [obj |-> objs + 1, state |-> CONNECTING]),
        objs |-> objs + 1, threw |-> FALSE, fx |-> <<Emit("nodeCreate")>>]

\* LilyNodeManager.add(options): the cache and the object count afterwards,
\* whether it threw, and what it emitted
NodesAdd(cache, objs, options) ==
  IF Cardinality(DOMAIN cache) >= maxCacheSize \/ ~options.valid
  THEN [cache |-> cache, objs |-> objs, threw |-> TRUE, fx |-> <<>>]
  ELSE IF NodeKey(options) \in DOMAIN cache
  THEN [cache |-> cache, objs |-> objs, threw |-> TRUE, fx |-> <<>>]
  ELSE [cache |-> cache @@ (NodeKey(options) :> [obj |-> objs + 1, state |-> CONNECTING]),
        objs |-> objs + 1, threw |-> FALSE, fx |-> <<Emit("nodeCreate")>>]

\* LilyNodeManager.remove(identifier)
NodesRemove(cache, identifier) ==
  IF identifier \notin DOMAIN cache
  THEN [cache |-> cache, threw |-> TRUE, fx |-> <<>>]
  ELSE [cache |-> Without(cache, identifier), threw |-> FALSE,
        fx |-> <<Call("node.destroy"), Emit("nodeDestroy")>>]

\* LilyNodeManager.sortByUsage('players'): some connected node, or none (Null)
ConnectedNodes(cache) == {k \in DOMAIN cache : cache[k].state = CONNECTED}

PlayersCreateMutNoLookup(cache, objs, nodes, config, pick) ==
  IF ~config.valid \/ config.guildId = Null
  THEN [cache |-> cache, objs |-> objs, threw |-> TRUE, ret |-> Null]
  ELSE IF (config.node # Null /\ config.node \notin DOMAIN nodes)
          \/ (config.node = Null /\ pick = Null)
  THEN [cache |-> cache, objs |-> objs, threw |-> TRUE, ret |-> Null]
  ELSE [cache |-> Without(cache, config.guildId)
                    @@ (config.guildId :>
                          [obj |-> objs + 1, guildId |-> config.guildId,
                           node |-> IF config.node # Null THEN config.node ELSE pick]),
        objs |-> objs + 1, threw |-> FALSE, ret |-> objs + 1]

\* LilyPlayerManager.create(config): pick is the node sortByUsage returns
\* (Null when no node is connected)
PlayersCreate(cache, objs, nodes, config, pick) ==
  IF config.guildId = Null
  THEN [cache |-> cache, objs |-> objs, threw |-> TRUE, ret |-> Null]
  ELSE IF config.guildId \in DOMAIN cache
  THEN [cache |-> cache, objs |-> objs, threw |-> FALSE, ret |-> cache[config.guildId].obj]
  ELSE IF ~config.valid
  THEN [cache |-> cache, objs |-> objs, threw |-> TRUE, ret |-> Null]
  ELSE IF (config.node # Null /\ config.node \notin DOMAIN nodes)
          \/ (config.node = Null /\ pick = Null)
  THEN [cache |-> cache, objs |-> objs, threw |-> TRUE, ret |-> Null]
  ELSE [cache |-> cache @@ (config.guildId :>
                              [obj |-> objs + 1, guildId |-> config.guildId,
                               node |-> IF config.node # Null THEN config.node ELSE pick]),
        objs |-> objs + 1, threw |-> FALSE, ret |-> objs + 1]

NodeOptions == [identifier : {Null} \cup Idents, host : Idents, valid : BOOLEAN]
CreateConfigs == [guildId : {Null} \cup Guilds, valid : BOOLEAN, node : {Null} \cup Idents]

\* manager.nodes.add(options), by the host
RegistryAddNode(options) ==
  LET r == NodesAdd(ncache, nobjs, options)
  IN  /\ r.objs <= MaxNodeObjects
      /\ ncache' = r.cache
      /\ nobjs' = r.objs
      /\ rlast' = [op |-> "nodes.add", key |-> NodeKey(options), threw |-> r.threw,
                   ret |-> Null, fx |-> r.fx,
                   existed |-> NodeKey(options) \in DOMAIN ncache]
      /\ UNCHANGED <<pcache, pobjs, deleting, qvars, pvars, nvars, evars>>

\* manager.nodes.remove(identifier), by the host
RegistryRemoveNode(identifier) ==
  LET r == NodesRemove(ncache, identifier)
  IN  /\ ncache' = r.cache
      /\ rlast' = [op |-> "nodes.remove", key |-> identifier, threw |-> r.threw,
                   ret |-> Null, fx |-> r.fx, existed |-> identifier \in DOMAIN ncache]
      /\ UNCHANGED <<nobjs, pcache, pobjs, deleting, qvars, pvars, nvars, evars>>

\* a registered node's connection opens or closes (its state field changes)
RegistryNodeState(identifier, st) ==
  /\ identifier \in DOMAIN ncache
  /\ ncache[identifier].state # st
  /\ ncache' = [ncache EXCEPT ![identifier].state = st]
  /\ rlast' = [op |-> "node state"]
  /\ UNCHANGED <<nobjs, pcache, pobjs, deleting, qvars, pvars, nvars, evars>>

\* manager.players.create(config) / manager.createPlayer(config), by the host
RegistryCreatePlayer(config, pick) ==
  LET r == PlayersCreate(pcache, pobjs, ncache, config, pick)
  IN  /\ pick \in ConnectedNodes(ncache) \/ (pick = Null /\ ConnectedNodes(ncache) = {})
      /\ r.objs <= MaxInstances
      /\ pcache' = r.cache
      /\ pobjs' = r.objs
      /\ rlast' = [op |-> "players.create", key |-> config.guildId, threw |-> r.threw,
                   ret |-> r.ret, fx |-> <<>>,
                   existed |-> config.guildId \in DOMAIN pcache]
      /\ UNCHANGED <<ncache, nobjs, deleting, qvars, pvars, nvars, evars>>

\* manager.players.delete(guildId) up to its await of rest.destroy
RegistryDeletePlayer(g) ==
  /\ g \in DOMAIN pcache
  /\ deleting[g] < MaxDeleting
  /\ deleting' = StartDelete(g, 1)
  /\ rlast' = [op |-> "players.delete"]
  /\ UNCHANGED <<ncache, nobjs, pcache, pobjs, qvars, pvars, nvars, evars>>

\* A manager constructed with one node configuration and no player yet.
InitRegistry ==
  /\ QIdle
  /\ previousInArray = FALSE
  /\ PIdle([guildId |-> 1, loop |-> LoopOff, autoPlay |-> FALSE,
            autoLeave |-> FALSE, queueStartIndex |-> 0])
  /\ NIdle(CONNECTING, "null")
  /\ RIdle((1 :> [obj |-> 1, state |-> CONNECTING]), <<>>)
  /\ EIdle

NextRegistry ==
  \/ \E o \in NodeOptions : RegistryAddNode(o)
  \/ \E i \in Idents : RegistryRemoveNode(i)
  \/ \E i \in Idents, st \in {CONNECTED, DISCONNECTED} : RegistryNodeState(i, st)
  \/ \E c \in CreateConfigs, k \in {Null} \cup Idents : RegistryCreatePlayer(c, k)
  \/ \E g \in Guilds : RegistryDeletePlayer(g)
  \/ \E g \in Guilds, ok \in BOOLEAN : DeleteSettles(g, ok)

SpecRegistry == InitRegistry /\ [][NextRegistry]_vars

\* C6: create for a guild that already has a player returns the registered
\* instance, constructs no player and leaves the registry as it was; the
\* registry never holds one player object under two guild ids, and each entry
\* is the player of the guild id it is filed under.
C6_CreateIsIdempotent ==
  [][ /\ (rlast'.op = "players.create" /\ rlast'.key \in DOMAIN pcache) =>
           /\ ~rlast'.threw
           /\ rlast'.ret = pcache[rlast'.key].obj
           /\ pobjs' = pobjs
           /\ pcache' = pcache
           /\ Cardinality(DOMAIN pcache') = Cardinality(DOMAIN pcache)
      /\ \A g \in DOMAIN pcache' : pcache'[g].guildId = g
      /\ \A g, h \in DOMAIN pcache' : pcache'[g].obj = pcache'[h].obj => g = h ]_vars

C6_Witness ==
  /\ rlast.op = "players.create"
  /\ rlast.existed
  /\ rlast.ret = pcache[rlast.key].obj
  /\ Cardinality(DOMAIN pcache) = 2

\* C7: add with an identifier (or, without one, a host) that is already
\* registered throws, and leaves the node registry as it was: the same
\* identifiers, the same node objects, none constructed, no nodeCreate.
C7_DuplicateAddRejected ==
  [][ (rlast'.op = "nodes.add" /\ rlast'.key \in DOMAIN ncache) =>
         /\ rlast'.threw
         /\ ncache' = ncache
         /\ DOMAIN ncache' = DOMAIN ncache
         /\ nobjs' = nobjs
         /\ Count(rlast'.fx, "emit", "nodeCreate") = 0 ]_vars

C7_Witness ==
  /\ rlast.op = "nodes.add"
  /\ rlast.existed
  /\ rlast.threw
  /\ Cardinality(DOMAIN ncache) = 2


\* ------------------------------------------------------------------ queue spec
QueueDone(op, arg, threw, value, q) ==
  /\ queue' = q
  /\ qlast' = [op |-> op, arg |-> arg, threw |-> threw, value |-> value, pre |-> queue]
  /\ UNCHANGED <<addLog, shiftLog, pvars, nvars, rvars, evars>>

QAdd(t) ==
  /\ QueueSize(queue) < MaxQueue
  /\ QueueDone("add", t, FALSE, Null, QueueAdd(queue, t))

QUnshift(t) ==
  /\ QueueSize(queue) < MaxQueue
  /\ QueueDone("unshift", t, FALSE, Null, QueueUnshift(queue, t))

QGet(position) ==
  QueueDone("get", position, QueueGet(queue, position).threw,
            QueueGet(queue, position).value, queue)

QRemove(position) ==
  QueueDone("remove", position, FALSE,
            IF QueueRemove(queue, position).ret THEN 1 ELSE 0,
            QueueRemove(queue, position).queue)

QShift ==
  QueueDone("shift", Null, QueueShift(queue).threw, QueueShift(queue).value,
            QueueShift(queue).queue)

QPop ==
  QueueDone("pop", Null, QueuePop(queue).threw, QueuePop(queue).value,
            QueuePop(queue).queue)

QClear == QueueDone("clear", Null, FALSE, Null, QueueClear(queue))

\* shuffle() with the draws js of Math.random
QShuffle(js) ==
  QueueDone("shuffle", Null, QueueShuffle(queue, js).threw, Null,
            QueueShuffle(queue, js).queue)

QSetStartIndex(index) ==
  QueueDone("setStartIndex", index, FALSE, Null, QueueSetStartIndex(queue, index))

\* the positions a caller may pass: below, inside and beyond every valid range
Positions == (0 - 1)..(MaxStart + MaxQueue + 1)

\* A queue constructed with some start index.
InitQueue ==
  /\ \E i \in (0 - 1)..MaxStart :
       /\ queue = QueueNew(i)
       /\ qlast = [op |-> "new", arg |-> i, threw |-> FALSE, value |-> Null,
                   pre |-> QueueNew(i)]
  /\ addLog = <<>>
  /\ shiftLog = <<>>
  /\ previousInArray = FALSE
  /\ PIdle([guildId |-> 1, loop |-> LoopOff, autoPlay |-> FALSE,
            autoLeave |-> FALSE, queueStartIndex |-> 0])
  /\ NIdle(CONNECTING, "null")
  /\ RIdle((1 :> [obj |-> 1, state |-> CONNECTING]), <<>>)
  /\ EIdle

NextQueue ==
  \/ \E t \in QueueTracks : QAdd(t)
  \/ \E t \in QueueTracks : QUnshift(t)
  \/ \E p \in Positions : QGet(p)
  \/ \E p \in Positions : QRemove(p)
  \/ QShift
  \/ QPop
  \/ QClear
  \/ \E js \in ShuffleDraws(Max(QueueSize(queue), 1)) : QShuffle(js)
  \/ \E i \in (0 - 1)..MaxStart : QSetStartIndex(i)

SpecQueue == InitQueue /\ [][NextQueue]_vars

\* add(track) of a track not added before, and shift(), logged in call order
FifoAdd(t) ==
  /\ \A i \in 1..Len(addLog) : addLog[i] # t
  /\ queue' = QueueAdd(queue, t)
  /\ addLog' = Append(addLog, t)
  /\ UNCHANGED <<qlast, shiftLog, pvars, nvars, rvars, evars>>

FifoShift ==
  /\ ~QueueShift(queue).threw
  /\ queue' = QueueShift(queue).queue
  /\ shiftLog' = Append(shiftLog, QueueShift(queue).value)
  /\ UNCHANGED <<qlast, addLog, pvars, nvars, rvars, evars>>

NextFifo ==
  \/ \E t \in QueueTracks : FifoAdd(t)
  \/ FifoShift

SpecFifo == InitQueue /\ [][NextFifo]_vars

\* C8: the tracks returned by shift are, in order, the tracks given to add;
\* what is still queued is the rest of them; once every added track was
\* shifted out the queue is empty; and has() is false for every track that
\* was shifted out.
C8_Fifo ==
  /\ Len(shiftLog) <= Len(addLog)
  /\ \A i \in 1..Len(shiftLog) : shiftLog[i] = addLog[i]
  /\ QueueValues(queue) = SubSeq(addLog, Len(shiftLog) + 1, Len(addLog))
  /\ QueueSize(queue) = Len(addLog) - Len(shiftLog)
  /\ Len(shiftLog) = Len(addLog) => (QueueSize(queue) = 0 /\ queue.head = Null)
  /\ \A i \in 1..Len(shiftLog) : ~QueueHas(queue, shiftLog[i])

C8_Witness ==
  /\ Len(addLog) >= 3
  /\ Len(shiftLog) = Len(addLog)
  /\ QueueSize(queue) = 0

\* the sequence s without its element at index k
RemoveAt(s, k) == [i \in 1..(Len(s) - 1) |-> IF i < k THEN s[i] ELSE s[i + 1]]

\* C9: with start index s and n queued tracks, get(p) returns the track at
\* offset p - s from the head when s <= p < s + n and throws for every other
\* p; remove(p) removes exactly that entry and returns true in the same
\* range, and returns false leaving the queue as it was for every other p.
C9_PositionAddressing ==
  LET pre == QueueValues(qlast.pre)
      k == qlast.arg - qlast.pre.startIndex
      inRange == 0 <= k /\ k < Len(pre)
  IN  /\ qlast.op = "get" =>
           IF inRange THEN ~qlast.threw /\ qlast.value = pre[k + 1]
           ELSE qlast.threw
      /\ qlast.op = "remove" =>
           IF inRange
           THEN /\ qlast.value = 1
                /\ QueueValues(queue) = RemoveAt(pre, k + 1)
                /\ QueueSize(queue) = Len(pre) - 1
           ELSE /\ qlast.value = 0
                /\ queue = qlast.pre

C9_Witness ==
  /\ qlast.op = "remove"
  /\ qlast.value = 1
  /\ qlast.pre.startIndex = 2
  /\ qlast.arg = 3
  /\ QueueSize(queue) = 2
  /\ QueueValues(queue)[1] # QueueValues(queue)[2]

Occurrences(s, t) == Cardinality({i \in 1..Len(s) : s[i] = t})

\* C10: shuffle on two or more tracks returns normally and only permutes:
\* every track occurs as often as before, the size is the same, and has()
\* answers as before, whatever Math.random draws.
C10_ShufflePermutes ==
  (qlast.op = "shuffle" /\ QueueSize(qlast.pre) >= 2) =>
     /\ ~qlast.threw
     /\ \A t \in QueueTracks :
          Occurrences(QueueValues(queue), t) = Occurrences(QueueValues(qlast.pre), t)
     /\ Len(QueueValues(queue)) = Len(QueueValues(qlast.pre))
     /\ QueueSize(queue) = QueueSize(qlast.pre)
     /\ \A t \in QueueTracks : QueueHas(queue, t) <=> QueueHas(qlast.pre, t)

C10_Witness ==
  /\ qlast.op = "shuffle"
  /\ ~qlast.threw
  /\ QueueSize(queue) = 3
  /\ QueueValues(queue) # QueueValues(qlast.pre)
  /\ QueueValues(queue)[1] = QueueValues(qlast.pre)[3]

\* ------------------------------------------------------------------ player control spec
\* the volumes the host passes to setVolume: around both ends of the bound
SetVolumes == {0 - 1, 0, 1, 100, 101}

ControlFrame == <<qvars, nvars, previousInArray, autoplay, ncache, pcache, nobjs,
                  pobjs, rlast, evars>>

\* player.connect(options), by the host
HostConnect ==
  /\ Done([op |-> "connect", arg |-> Null, ret |-> TRUE, threw |-> FALSE],
          PlayerConnect(player))
  /\ UNCHANGED ControlFrame

\* player.pause(), by the host
HostPause ==
  /\ Done([op |-> "pause", arg |-> Null, ret |-> PlayerPause(player).ret, threw |-> FALSE],
          PlayerPause(player))
  /\ UNCHANGED ControlFrame

\* player.resume(), by the host
HostResume ==
  /\ Done([op |-> "resume", arg |-> Null, ret |-> PlayerResume(player).ret, threw |-> FALSE],
          PlayerResume(player))
  /\ UNCHANGED ControlFrame

\* player.shuffle(), by the host
HostShuffle(js) ==
  /\ Done([op |-> "shuffle", arg |-> Null, ret |-> PlayerShuffle(player, js).ret,
           threw |-> FALSE],
          PlayerShuffle(player, js))
  /\ UNCHANGED ControlFrame

\* player.queue.shuffle(), by the host
HostQueueShuffle(js) ==
  LET r == QueueShuffle(player.queue, js)
  IN  /\ Done([op |-> "queue.shuffle", arg |-> Null, ret |-> ~r.threw, threw |-> r.threw],
              [player |-> [player EXCEPT !.queue = r.queue], fx |-> <<>>])
      /\ UNCHANGED ControlFrame

\* player.setVolume(volume), by the host
HostSetVolume(volume) ==
  LET r == PlayerSetVolume(player, volume, playerVariant)
  IN  /\ Done([op |-> "setVolume", arg |-> volume, ret |-> r.ret, threw |-> r.threw], r)
      /\ UNCHANGED ControlFrame

\* player.destroy(), by the host
HostDestroy ==
  /\ Done([op |-> "destroy", arg |-> Null, ret |-> TRUE, threw |-> FALSE],
          PlayerDestroy(player, Registered(player)))
  /\ UNCHANGED ControlFrame

\* A manager with one connected node and the player of guild 1 just created,
\* built from either player source.
InitControl ==
  /\ QIdle
  /\ previousInArray = FALSE
  /\ PIdle([guildId |-> 1, loop |-> LoopOff, autoPlay |-> FALSE,
            autoLeave |-> FALSE, queueStartIndex |-> 0])
  /\ NIdle(CONNECTED, "open")
  /\ RIdle((1 :> [obj |-> 1, state |-> CONNECTED]), (1 :> [obj |-> 1, guildId |-> 1]))
  /\ CIdle
  /\ OIdle
  /\ VIdle
  /\ playerVariant \in {1, 2}
  /\ filters = FiltersNew
  /\ destroyCalled = {}

NextControl ==
  \/ \E t \in Tracks : HostAdd(t)
  \/ HostPlay
  \/ HostConnect
  \/ HostPause
  \/ HostResume
  \/ \E js \in ShuffleDraws(Max(QueueSize(player.queue), 1)) : HostShuffle(js)
  \/ \E js \in ShuffleDraws(Max(QueueSize(player.queue), 1)) : HostQueueShuffle(js)
  \/ \E v \in SetVolumes : HostSetVolume(v)
  \/ HostDestroy
  \/ \E g \in Guilds, ok \in BOOLEAN : DeleteSettles(g, ok)

SpecControl == InitControl /\ [][NextControl]_vars


\* ------------------------------------------------------------------ player control claims
\* the REST updates among the effects of the last operation
Updates(s) == {i \in 1..Len(s) : s[i].k = "rest" /\ s[i].n = "update"}
Emits(s) == {i \in 1..Len(s) : s[i].k = "emit"}

\* C11: shuffle on a queue of fewer than two tracks fails and leaves the
\* queue as it was: LilyQueue.shuffle throws, LilyPlayer.shuffle returns
\* false, changes no player field and emits no playerTriggeredShuffle.
C11_ShortShuffleFails ==
  [][/\ (plast'.op = "shuffle" /\ QueueSize(player.queue) < 2) =>
          /\ ~plast'.ret
          /\ player' = player
          /\ Count(fx', "emit", "playerTriggeredShuffle") = 0
     /\ (plast'.op = "queue.shuffle" /\ QueueSize(player.queue) < 2) =>
          /\ plast'.threw
          /\ player'.queue = player.queue]_vars

C11_Witness ==
  /\ plast.op = "shuffle"
  /\ ~plast.ret
  /\ QueueSize(player.queue) = 1
  /\ fx = <<>>

\* C14: setVolume with a value below the validator's minimum or above its
\* maximum throws; the player (its volume included) is unchanged, no
\* playerChangedVolume is emitted and no REST update is issued.
C14_SetVolumeRejects ==
  [][(/\ plast'.op = "setVolume"
      /\ (plast'.arg < VolumeMin(playerVariant) \/ plast'.arg > VolumeMax)) =>
        /\ plast'.threw
        /\ player' = player
        /\ Count(fx', "emit", "playerChangedVolume") = 0
        /\ Updates(fx') = {}]_vars

C14_Witness ==
  /\ plast.op = "setVolume"
  /\ plast.threw
  /\ plast.arg = 0
  /\ playerVariant = 1
  /\ filters = FiltersNew
  /\ destroyCalled = {}
  /\ player.volume = 1

\* C15: play() with an empty queue returns false, issues no REST update,
\* emits nothing and changes no player field; with a non-empty queue it
\* returns true, the head of the queue becomes the current track and leaves
\* the queue, exactly one REST update carries that track's encoded form and
\* the player's volume, and playing is true.
C15_Play ==
  [][plast'.op = "play" =>
       IF QueueSize(player.queue) = 0
       THEN /\ ~plast'.ret
            /\ player' = player
            /\ Updates(fx') = {}
            /\ Emits(fx') = {}
       ELSE LET head == QueueValues(player.queue)[1]
            IN  /\ plast'.ret
                /\ player'.current = head
                /\ QueueValues(player'.queue) = Tail(QueueValues(player.queue))
                /\ Cardinality(Updates(fx')) = 1
                /\ \A i \in Updates(fx') :
                     fx'[i].d = [track |-> Encoded(head), volume |-> player.volume]
                /\ player'.volume = player.volume
                /\ player'.playing]_vars

C15_Witness ==
  /\ plast.op = "play"
  /\ plast.ret
  /\ player.current # Null
  /\ player.volume = 1
  /\ \E i \in Updates(fx) :
       fx[i].d = [track |-> Encoded(player.current), volume |-> 1]

\* C16: pause() on a paused player and resume() on a player that is not
\* paused return true, issue no REST update, emit nothing and change no
\* player field; a second pause (resume) after a first leaves the player
\* as the first left it and does nothing more.
C16_PauseResumeIdempotent ==
  [][/\ (plast'.op = "pause" /\ player.paused) =>
          (plast'.ret /\ fx' = <<>> /\ player' = player)
     /\ (plast'.op = "resume" /\ ~player.paused) =>
          (plast'.ret /\ fx' = <<>> /\ player' = player)
     /\ PlayerPause(PlayerPause(player).player) =
          [player |-> PlayerPause(player).player, fx |-> <<>>, ret |-> TRUE]
     /\ PlayerResume(PlayerResume(player).player) =
          [player |-> PlayerResume(player).player, fx |-> <<>>, ret |-> TRUE]]_vars

C16_Witness ==
  /\ plast.op = "pause"
  /\ plast.ret
  /\ player.paused
  /\ fx = <<>>

\* C17 as claimed: destroy() empties the queue and sends the voice
\* disconnect payload exactly when the player was connected, and once the
\* REST delete it started has settled, successfully or not, the registry
\* has no entry for the guild.
C17_AsClaimed ==
  [][/\ plast'.op = "destroy" =>
          /\ QueueSize(player'.queue) = 0
          /\ (Count(fx', "payload", "op4") = 1) <=> player.connected
     /\ (plast'.op = "delete settles" /\ deleting'[player.guildId] = 0) =>
          player.guildId \notin DOMAIN pcache']_vars


\* ------------------------------------------------------------------ cache adapter
\* number of cache keys and of truthy cached values
NumKeys == 2
NumValues == 1
\* latest reading of the clock and longest time to live
MaxClock == 3
MaxTtl == 1
\* most entries ever stored on one adapter, most revalidate calls in flight
MaxEntries == 2
MaxReval == 1

\* undefined, where it must differ from a cached falsy value
Undefined == 0 - 1
CacheKeys == 1..NumKeys
\* the values a caller caches: 0 stands for the falsy ones (0, '', false, null)
CachedValues == 0..NumValues
\* JavaScript truthiness of a value or undefined
Truthy(v) == v # Undefined /\ v # 0

CacheEmit(name, key, id) == [k |-> "emit", n |-> name, key |-> key, id |-> id]

\* CacheAdapter.isExpired(entry) at time t
isExpired(entry, t) == entry.expires # 0 /\ t > entry.expires

\* CacheAdapter.createEntry(value, options) at time t; ttl is options?.ttl
createEntry(key, value, ttl, options, t, id) ==
  LET chosen == IF ttl # Undefined THEN ttl ELSE options.ttl
  IN  [key |-> key, value |-> value,
       expires |-> IF chosen # 0 THEN t + chosen ELSE 0, id |-> id]

\* the position of the first entry under the key (0 when there is none):
\* Map.get(key), or the first key object of the WeakMapAdapter with that key
Find(st, key) ==
  IF \E i \in 1..Len(st) : st[i].key = key
  THEN CHOOSE i \in 1..Len(st) :
         st[i].key = key /\ \A j \in 1..(i - 1) : st[j].key # key
  ELSE 0

\* Map.delete / Set.delete of the entry at position i
SeqDelete(st, i) == [j \in 1..(Len(st) - 1) |-> st[IF j < i THEN j ELSE j + 1]]

\* a get that hands out the expired value and keeps the entry
CacheGetMutKeepsExpired(st, key, t) ==
  LET i == Find(st, key)
  IN  IF i = 0 THEN [store |-> st, ret |-> Undefined, fx |-> <<>>]
      ELSE [store |-> st, ret |-> st[i].value, fx |-> <<>>]

\* get(key) at time t
CacheGet(st, key, t) ==
  LET i == Find(st, key)
  IN  IF i = 0 THEN [store |-> st, ret |-> Undefined, fx |-> <<>>]
      ELSE IF isExpired(st[i], t)
      THEN [store |-> SeqDelete(st, i), ret |-> Undefined,
            fx |-> <<CacheEmit("cacheExpired", key, st[i].id)>>]
      ELSE [store |-> st, ret |-> st[i].value, fx |-> <<>>]

\* a has that drops the expired entry without a word
CacheHasMutSilent(st, key, t) ==
  LET i == Find(st, key)
  IN  IF i = 0 THEN [store |-> st, ret |-> FALSE, fx |-> <<>>]
      ELSE IF isExpired(st[i], t)
      THEN [store |-> SeqDelete(st, i), ret |-> FALSE, fx |-> <<>>]
      ELSE [store |-> st, ret |-> TRUE, fx |-> <<>>]

\* has(key) at time t
CacheHas(st, key, t) ==
  LET i == Find(st, key)
  IN  IF i = 0 THEN [store |-> st, ret |-> FALSE, fx |-> <<>>]
      ELSE IF isExpired(st[i], t)
      THEN [store |-> SeqDelete(st, i), ret |-> FALSE,
            fx |-> <<CacheEmit("cacheExpired", key, st[i].id)>>]
      ELSE [store |-> st, ret |-> TRUE, fx |-> <<>>]

\* set(key, value, options): the MapAdapter replaces the entry of the key in
\* place, the WeakMapAdapter adds a new key object whatever it already holds
CacheSet(ad, st, entry) ==
  LET i == Find(st, entry.key)
  IN  [store |-> IF ad = "map" /\ i # 0 THEN [st EXCEPT ![i] = entry]
                 ELSE Append(st, entry),
       fx |-> <<CacheEmit("cacheSet", entry.key, entry.id)>>]

\* delete(key): the first entry under the key goes
CacheDelete(st, key) ==
  LET i == Find(st, key)
  IN  IF i = 0 THEN [store |-> st, ret |-> FALSE, fx |-> <<>>]
      ELSE [store |-> SeqDelete(st, i), ret |-> TRUE,
            fx |-> <<CacheEmit("cacheDelete", key, st[i].id)>>]

\* clear()
CacheClear(st) == [store |-> <<>>, fx |-> <<CacheEmit("cacheClear", Null, Null)>>]

\* the notifications of one pass of values() / entries() over the entries
RECURSIVE ExpiredEvents(_, _)
ExpiredEvents(st, t) ==
  IF st = <<>> THEN <<>>
  ELSE (IF isExpired(Head(st), t)
        THEN <<CacheEmit("cacheExpired", Head(st).key, Head(st).id)>> ELSE <<>>)
       \o ExpiredEvents(Tail(st), t)

\* values() and entries() at time t: every expired entry is dropped and
\* announced, the others are returned in order (ret is how many)
CacheEntries(st, t) ==
  LET live(e) == ~isExpired(e, t)
  IN  [store |-> SelectSeq(st, live), ret |-> Len(SelectSeq(st, live)),
       fx |-> ExpiredEvents(st, t)]

\* revalidate(key, revalidateFn) up to the call of revalidateFn: served is
\* whether the cached value is returned without calling it
CacheRevalidate(st, key, options, t) ==
  LET g == CacheGet(st, key, t)
  IN  [store |-> g.store, fx |-> g.fx, ret |-> g.ret,
       served |-> Truthy(g.ret) /\ ~options.revalidate]


\* ------------------------------------------------------------------ cache spec
\* the ttl options a caller passes to set: none, or 0 for no expiry
SetTtls == {Undefined, 0}

CacheFrame == <<qvars, pvars, nvars, rvars, ovars, vvars, playerVariant, filters,
                destroyCalled, adapter, cacheOptions>>

\* cacheExpired notifications counted against the entries they name
Logged(log, emitted) ==
  [id \in DOMAIN log |->
     log[id] + Cardinality({i \in 1..Len(emitted) :
                              emitted[i].n = "cacheExpired" /\ emitted[i].id = id})]

CacheOp(op, key, ret, emitted, invoked) ==
  [op |-> op, key |-> key, ret |-> ret, fx |-> emitted, invoked |-> invoked]

\* the clock advances; nothing runs
Tick ==
  /\ now < MaxClock
  /\ now' = now + 1
  /\ clast' = CacheOp("tick", Null, Null, <<>>, 0)
  /\ UNCHANGED <<store, reval, expiredLog, CacheFrame>>

\* cache.get(key), by the host
CGet(key) ==
  LET r == CacheGet(store, key, now)
  IN  /\ store' = r.store
      /\ clast' = CacheOp("get", key, r.ret, r.fx, 0)
      /\ expiredLog' = Logged(expiredLog, r.fx)
      /\ UNCHANGED <<now, reval, CacheFrame>>

\* cache.has(key), by the host
CHas(key) ==
  LET r == CacheHas(store, key, now)
  IN  /\ store' = r.store
      /\ clast' = CacheOp("has", key, r.ret, r.fx, 0)
      /\ expiredLog' = Logged(expiredLog, r.fx)
      /\ UNCHANGED <<now, reval, CacheFrame>>

\* cache.set(key, value, {ttl}), by the host
CSet(key, value, ttl) ==
  LET id == Len(expiredLog) + 1
      r == CacheSet(adapter, store, createEntry(key, value, ttl, cacheOptions, now, id))
  IN  /\ id <= MaxEntries
      /\ store' = r.store
      /\ clast' = CacheOp("set", key, Null, r.fx, 0)
      /\ expiredLog' = Append(expiredLog, 0)
      /\ UNCHANGED <<now, reval, CacheFrame>>

\* cache.delete(key), by the host
CDelete(key) ==
  LET r == CacheDelete(store, key)
  IN  /\ store' = r.store
      /\ clast' = CacheOp("delete", key, r.ret, r.fx, 0)
      /\ UNCHANGED <<now, reval, expiredLog, CacheFrame>>

\* cache.clear(), by the host
CClear ==
  /\ store' = CacheClear(store).store
  /\ clast' = CacheOp("clear", Null, Null, CacheClear(store).fx, 0)
  /\ UNCHANGED <<now, reval, expiredLog, CacheFrame>>

\* cache.values() or cache.entries(), by the host
CEntries(op) ==
  LET r == CacheEntries(store, now)
  IN  /\ store' = r.store
      /\ clast' = CacheOp(op, Null, r.ret, r.fx, 0)
      /\ expiredLog' = Logged(expiredLog, r.fx)
      /\ UNCHANGED <<now, reval, CacheFrame>>

\* cache.size() or cache.keys(), by the host: the entries are only counted
CSize(op) ==
  /\ clast' = CacheOp(op, Null, Len(store), <<>>, 0)
  /\ UNCHANGED <<now, store, reval, expiredLog, CacheFrame>>

\* cache.revalidate(key, revalidateFn), by the host, up to its return of the
\* cached value or its call of revalidateFn
CRevalidate(key) ==
  LET r == CacheRevalidate(store, key, cacheOptions, now)
  IN  /\ store' = r.store
      /\ expiredLog' = Logged(expiredLog, r.fx)
      /\ IF r.served
         THEN /\ clast' = CacheOp("revalidate", key, r.ret, r.fx, 0)
              /\ UNCHANGED reval
         ELSE /\ Len(reval) < MaxReval
              /\ clast' = CacheOp("revalidate", key, Undefined, r.fx, 1)
              /\ reval' = Append(reval, [key |-> key, stage |-> "requested",
                                         value |-> Undefined])
      /\ UNCHANGED <<now, CacheFrame>>

\* revalidate after revalidateFn resolved with fresh: set(key, fresh) and
\* the return
RevalidateReturns(i, fresh) ==
  LET id == Len(expiredLog) + 1
      r == CacheSet(adapter, store,
                    createEntry(reval[i].key, fresh, Undefined, cacheOptions, now, id))
  IN  /\ id <= MaxEntries
      /\ store' = r.store
      /\ clast' = CacheOp("revalidate returns", reval[i].key, fresh, r.fx, 0)
      /\ expiredLog' = Append(expiredLog, 0)
      /\ reval' = SeqDelete(reval, i)

\* the producer handed to revalidate resolves
ProducerResolves(i, fresh) ==
  /\ i \in 1..Len(reval)
  /\ reval[i].stage = "requested"
  /\ RevalidateReturns(i, fresh)
  /\ UNCHANGED <<now, CacheFrame>>

\* the producer handed to revalidate rejects: revalidate rejects with it
ProducerRejects(i) ==
  /\ i \in 1..Len(reval)
  /\ reval[i].stage = "requested"
  /\ reval' = SeqDelete(reval, i)
  /\ clast' = CacheOp("revalidate throws", reval[i].key, Undefined, <<>>, 0)
  /\ UNCHANGED <<now, store, expiredLog, CacheFrame>>

\* An adapter of either class, constructed with or without a default ttl
\* and with or without forced revalidation.
InitCache ==
  /\ QIdle
  /\ previousInArray = FALSE
  /\ PIdle([guildId |-> 1, loop |-> LoopOff, autoPlay |-> FALSE,
            autoLeave |-> FALSE, queueStartIndex |-> 0])
  /\ NIdle(CONNECTING, "null")
  /\ RIdle((1 :> [obj |-> 1, state |-> CONNECTING]), <<>>)
  /\ OIdle
  /\ VIdle
  /\ playerVariant = 1
  /\ filters = FiltersNew
  /\ destroyCalled = {}
  /\ now = 1
  /\ adapter \in {"map", "weakmap"}
  /\ cacheOptions \in [ttl : {0, MaxTtl}, revalidate : BOOLEAN]
  /\ store = <<>>
  /\ reval = <<>>
  /\ clast = CacheOp("new", Null, Null, <<>>, 0)
  /\ expiredLog = <<>>

NextCache ==
  \/ Tick
  \/ \E key \in CacheKeys : CGet(key)
  \/ \E key \in CacheKeys : CHas(key)
  \/ \E key \in CacheKeys, value \in CachedValues, ttl \in SetTtls : CSet(key, value, ttl)
  \/ \E key \in CacheKeys : CDelete(key)
  \/ CClear
  \/ \E op \in {"values", "entries"} : CEntries(op)
  \/ \E op \in {"size", "keys"} : CSize(op)
  \/ \E key \in CacheKeys : CRevalidate(key)
  \/ \E i \in 1..MaxReval, fresh \in CachedValues : ProducerResolves(i, fresh)
  \/ \E i \in 1..MaxReval : ProducerRejects(i)

SpecCache == InitCache /\ [][NextCache]_vars


\* ------------------------------------------------------------------ cache claims
\* the ids of the entries an adapter holds, and the entry of an id
EntryIds(st) == {st[j].id : j \in 1..Len(st)}
EntryOf(st, id) == st[CHOOSE j \in 1..Len(st) : st[j].id = id]
Expirations(emitted) == {i \in 1..Len(emitted) : emitted[i].n = "cacheExpired"}
ReadOps == {"get", "has", "values", "entries", "revalidate"}

\* C12 as claimed: without forced revalidation, revalidate on a key whose
\* entry has not expired returns the cached value and does not call the
\* producer, whatever the cached value is.
C12_AsClaimed ==
  [][(/\ clast'.op = "revalidate"
      /\ ~cacheOptions.revalidate
      /\ Find(store, clast'.key) # 0
      /\ ~(/\ store[Find(store, clast'.key)].expires # 0
           /\ now > store[Find(store, clast'.key)].expires)) =>
        /\ clast'.ret = store[Find(store, clast'.key)].value
        /\ clast'.invoked = 0]_vars

C20_LazyExpiry ==
  [][LET removed == EntryIds(store) \ EntryIds(store')
         emitted == clast'.fx
     IN  /\ \A i \in Expirations(emitted) :
               /\ clast'.op \in ReadOps
               /\ emitted[i].id \in removed
               /\ EntryOf(store, emitted[i].id).key = emitted[i].key
               /\ EntryOf(store, emitted[i].id).expires # 0
               /\ now > EntryOf(store, emitted[i].id).expires
         /\ clast'.op \in ReadOps =>
               \A id \in removed :
                 Cardinality({i \in Expirations(emitted) : emitted[i].id = id}) = 1
         /\ clast'.op \in {"tick", "size", "keys", "revalidate throws"} => removed = {}
         /\ clast'.op \in {"set", "revalidate returns"} =>
               \A id \in removed : EntryOf(store, id).key = clast'.key
         /\ \A id \in DOMAIN expiredLog' : expiredLog'[id] <= 1]_vars

C20_Witness ==
  /\ clast.op = "values"
  /\ Cardinality(Expirations(clast.fx)) = 2
  /\ store = <<>>


\* ------------------------------------------------------------------ rest spec
\* most versions the server's player of a guild goes through, most
\* rest.update / rest.destroy calls in flight
MaxVersion == 2
MaxMutations == 1

RestFrame == <<qvars, pvars, nvars, rvars, vvars, playerVariant, filters, destroyCalled,
               adapter, cacheOptions>>

\* the answer a getPlayer call gave: the origin version of the response,
\* whether it came from the cache, and the version of the last mutation of
\* the guild completed by then
Answer(op, g, version, cached) ==
  [op |-> op, guild |-> g, ret |-> version, cached |-> cached, floor |-> mutated[g]]

\* a step that answers no getPlayer call
NoAnswer == [op |-> "none", guild |-> Null, ret |-> Undefined, cached |-> FALSE,
             floor |-> Null]

\* rest.getPlayer(sessionId, guildId): cache.revalidate under the key
\* rest:<node>:player:<guildId>, up to the cached answer or the GET request
GetPlayer(g) ==
  LET r == CacheRevalidate(store, g, cacheOptions, now)
  IN  /\ store' = r.store
      /\ expiredLog' = Logged(expiredLog, r.fx)
      /\ IF r.served
         THEN /\ clast' = CacheOp("revalidate", g, r.ret, r.fx, 0)
              /\ olast' = Answer("getPlayer", g, r.ret, TRUE)
              /\ UNCHANGED reval
         ELSE /\ Len(reval) < MaxReval
              /\ clast' = CacheOp("revalidate", g, Undefined, r.fx, 1)
              /\ olast' = NoAnswer
              /\ reval' = Append(reval, [key |-> g, stage |-> "requested",
                                         value |-> Undefined])
      /\ UNCHANGED <<now, origin, mutations, mutated, RestFrame>>

\* the server answers the GET of a getPlayer call with the player as it is
OriginAnswers(i) ==
  /\ i \in 1..Len(reval)
  /\ reval[i].stage = "requested"
  /\ reval' = [reval EXCEPT ![i] = [@ EXCEPT !.stage = "answered",
                                             !.value = origin[reval[i].key]]]
  /\ clast' = CacheOp("request", Null, Null, <<>>, 0)
  /\ olast' = NoAnswer
  /\ UNCHANGED <<now, store, expiredLog, origin, mutations, mutated, RestFrame>>

\* the response of a getPlayer call arrives: revalidate stores and returns it
GetPlayerReturns(i) ==
  /\ i \in 1..Len(reval)
  /\ reval[i].stage = "answered"
  /\ RevalidateReturns(i, reval[i].value)
  /\ olast' = Answer("getPlayer", reval[i].key, reval[i].value, FALSE)
  /\ UNCHANGED <<now, origin, mutations, mutated, RestFrame>>

\* the request of a getPlayer call fails: makeRequest throws
GetPlayerFails(i) ==
  /\ i \in 1..Len(reval)
  /\ reval' = SeqDelete(reval, i)
  /\ clast' = CacheOp("revalidate throws", reval[i].key, Undefined, <<>>, 0)
  /\ olast' = NoAnswer
  /\ UNCHANGED <<now, store, expiredLog, origin, mutations, mutated, RestFrame>>

\* rest.update(data) or rest.destroy(guildId) up to its request
Mutate(g, kind) ==
  /\ Len(mutations) < MaxMutations
  /\ mutations' = Append(mutations, [guild |-> g, kind |-> kind, stage |-> "sent",
                                     version |-> Null])
  /\ clast' = CacheOp("request", Null, Null, <<>>, 0)
  /\ olast' = NoAnswer
  /\ UNCHANGED <<now, store, reval, expiredLog, origin, mutated, RestFrame>>

\* the server applies the PATCH or DELETE: its player changes
OriginApplies(i) ==
  /\ i \in 1..Len(mutations)
  /\ mutations[i].stage = "sent"
  /\ origin[mutations[i].guild] < MaxVersion
  /\ origin' = [origin EXCEPT ![mutations[i].guild] = @ + 1]
  /\ mutations' = [mutations EXCEPT ![i] =
                     [@ EXCEPT !.stage = "applied",
                               !.version = origin[mutations[i].guild] + 1]]
  /\ clast' = CacheOp("request", Null, Null, <<>>, 0)
  /\ olast' = NoAnswer
  /\ UNCHANGED <<now, store, reval, expiredLog, mutated, RestFrame>>

\* the response of the mutation arrives: the cached GET response of the
\* guild is deleted and the call completes
MutationReturns(i) ==
  /\ i \in 1..Len(mutations)
  /\ mutations[i].stage = "applied"
  /\ LET g == mutations[i].guild
         r == CacheDelete(store, g)
     IN  /\ store' = r.store
         /\ clast' = CacheOp("delete", g, r.ret, r.fx, 0)
         /\ mutated' = [mutated EXCEPT ![g] = Max(@, mutations[i].version)]
         /\ olast' = NoAnswer
  /\ mutations' = SeqDelete(mutations, i)
  /\ UNCHANGED <<now, reval, expiredLog, origin, RestFrame>>

\* the request of the mutation fails: makeRequest throws before the delete
MutationFails(i) ==
  /\ i \in 1..Len(mutations)
  /\ mutations' = SeqDelete(mutations, i)
  /\ clast' = CacheOp("request throws", Null, Null, <<>>, 0)
  /\ olast' = NoAnswer
  /\ UNCHANGED <<now, store, reval, expiredLog, origin, mutated, RestFrame>>

\* the clock advances
RestTick ==
  /\ now < MaxClock
  /\ now' = now + 1
  /\ clast' = CacheOp("tick", Null, Null, <<>>, 0)
  /\ olast' = NoAnswer
  /\ UNCHANGED <<store, reval, expiredLog, origin, mutations, mutated, RestFrame>>

\* A rest handler whose manager uses an adapter of either class.
InitRest ==
  /\ QIdle
  /\ previousInArray = FALSE
  /\ PIdle([guildId |-> 1, loop |-> LoopOff, autoPlay |-> FALSE,
            autoLeave |-> FALSE, queueStartIndex |-> 0])
  /\ NIdle(CONNECTED, "open")
  /\ RIdle((1 :> [obj |-> 1, state |-> CONNECTED]), <<>>)
  /\ VIdle
  /\ playerVariant = 1
  /\ filters = FiltersNew
  /\ destroyCalled = {}
  /\ now = 1
  /\ adapter \in {"map", "weakmap"}
  /\ cacheOptions \in [ttl : {0, MaxTtl}, revalidate : BOOLEAN]
  /\ store = <<>>
  /\ reval = <<>>
  /\ clast = CacheOp("new", Null, Null, <<>>, 0)
  /\ expiredLog = <<>>
  /\ origin = [g \in Guilds |-> 1]
  /\ mutations = <<>>
  /\ mutated = [g \in Guilds |-> 0]
  /\ olast = NoAnswer

NextRest ==
  \/ \E g \in Guilds : GetPlayer(g)
  \/ \E i \in 1..MaxReval : OriginAnswers(i)
  \/ \E i \in 1..MaxReval : GetPlayerReturns(i)
  \/ \E i \in 1..MaxReval : GetPlayerFails(i)
  \/ \E g \in Guilds, kind \in {"update", "destroy"} : Mutate(g, kind)
  \/ \E i \in 1..MaxMutations : OriginApplies(i)
  \/ \E i \in 1..MaxMutations : MutationReturns(i)
  \/ \E i \in 1..MaxMutations : MutationFails(i)
  \/ RestTick

SpecRest == InitRest /\ [][NextRest]_vars

\* C19 as claimed: a getPlayer answered from the cache never hands out a
\* response the server produced before a mutation of that guild that had
\* already completed when the answer was given.
C19_AsClaimed ==
  (olast.op = "getPlayer" /\ olast.cached) => olast.ret >= olast.floor


\* ------------------------------------------------------------------ voice packets
\* the endpoints of VOICE_SERVER_UPDATE: none, one of region 1, one of
\* region 2, one that is no <region>.discord.media name
Endpoints == {Null, 1, 2, 3}
Channels == {Null, 1, 2}
ServerPackets ==
  [t : {"VOICE_SERVER_UPDATE"}, guild : Guilds, token : {Null, 1}, endpoint : Endpoints]
StatePackets ==
  [t : {"VOICE_STATE_UPDATE"}, guild : Guilds, mine : BOOLEAN, channel : Channels,
   session : {Null, 1}]
OtherPackets == [t : {"GUILD_CREATE"}, guild : Guilds]

\* match[1] of endpoint.match(/^([a-z-]+)[0-9]*\.discord\.media/i)
Region(endpoint) == IF endpoint \in {1, 2} THEN endpoint ELSE Null

\* LilyNode.regions of the node registered under an identifier
NodeRegions(ident) == {ident}

\* [...nodes.cache.values()].find(node => node.regions.includes(region)):
\* the first node in insertion order, or null
FirstNodeOf(nodes, region) ==
  LET with == {k \in DOMAIN nodes : region \in NodeRegions(k)}
  IN  IF with = {} THEN Null
      ELSE CHOOSE k \in with : \A j \in with : nodes[k].obj <= nodes[j].obj

\* node.rest.update({guildId, data: {voice}})
VoiceUpdate(g, node, v) ==
  [k |-> "rest", n |-> "update", guild |-> g, node |-> node,
   d |-> [sessionId |-> v.sessionId, token |-> v.token, endpoint |-> v.endpoint]]

\* an attemptConnection that syncs whatever is known
attemptConnectionMutNoCheck(g, node, v) == <<VoiceUpdate(g, node, v)>>

\* attemptConnection(guildId) for a registered player: its effects
attemptConnection(g, node, v) ==
  IF v.token = Null \/ v.sessionId = Null \/ v.endpoint = Null
  THEN <<>>
  ELSE <<VoiceUpdate(g, node, v)>>

\* packetUpdate(packet): the player registry, the voice fields and the effects
packetUpdate(players, nodes, voice, byRegion, packet) ==
  LET g == packet.guild
      same == [players |-> players, voice |-> voice, fx |-> <<>>]
  IN  IF packet.t \notin {"VOICE_STATE_UPDATE", "VOICE_SERVER_UPDATE"} THEN same
      ELSE IF g \notin DOMAIN players THEN same
      ELSE IF packet.t = "VOICE_SERVER_UPDATE"
      THEN LET region == IF packet.endpoint # Null THEN Region(packet.endpoint) ELSE Null
               v == [voice[g] EXCEPT !.token = packet.token,
                                     !.endpoint = packet.endpoint,
                                     !.region = IF region # Null THEN region ELSE @]
               node == IF /\ region # Null
                          /\ byRegion
                          /\ region \notin NodeRegions(players[g].node)
                          /\ FirstNodeOf(nodes, region) # Null
                       THEN FirstNodeOf(nodes, region)
                       ELSE players[g].node
           IN  [players |-> [players EXCEPT ![g].node = node],
                voice |-> [voice EXCEPT ![g] = v],
                fx |-> attemptConnection(g, node, v)]
      ELSE IF ~packet.mine THEN same
      ELSE IF packet.channel = Null
      THEN [players |-> players,
            voice |-> [voice EXCEPT ![g] =
                         [@ EXCEPT !.connected = FALSE, !.playing = FALSE,
                                   !.voiceChannel = Null, !.token = Null,
                                   !.sessionId = Null, !.endpoint = Null]],
            fx |-> <<Emit("playerDisconnected")>>]
      ELSE LET v == [voice[g] EXCEPT !.voiceChannel = packet.channel,
                                     !.sessionId = packet.session]
           IN  [players |-> players,
                voice |-> [voice EXCEPT ![g] = v],
                fx |-> (IF packet.channel # voice[g].voiceChannel
                        THEN <<Emit("playerMoved")>> ELSE <<>>)
                       \o attemptConnection(g, players[g].node, v)]


\* ------------------------------------------------------------------ voice spec
\* number of guilds the host creates players for; packets arrive for every guild
NumPlayerGuilds == 1
PlayerGuilds == 1..NumPlayerGuilds

VoiceFrame == <<qvars, pvars, nvars, ncache, nobjs, deleting, rlast, cvars, ovars,
                playerVariant, filters, destroyCalled, sortPlayersByRegion>>

VoiceOp(op, g, mine, effects) == [op |-> op, guild |-> g, mine |-> mine, fx |-> effects]

\* manager.createPlayer(config) for a guild, by the host
VoiceCreatePlayer(g, pick) ==
  LET r == PlayersCreate(pcache, pobjs, ncache,
                         [guildId |-> g, valid |-> TRUE, node |-> Null], pick)
  IN  /\ pick \in ConnectedNodes(ncache)
      /\ r.objs <= MaxInstances
      /\ pcache' = r.cache
      /\ pobjs' = r.objs
      /\ voiceOf' = IF g \in DOMAIN pcache THEN voiceOf
                    ELSE [voiceOf EXCEPT ![g] = VoiceNew]
      /\ vlast' = VoiceOp("createPlayer", g, FALSE, <<>>)
      /\ UNCHANGED VoiceFrame

\* player.connect(options), by the host
VoiceConnect(g) ==
  /\ g \in DOMAIN pcache
  /\ voiceOf' = [voiceOf EXCEPT ![g].connected = TRUE]
  /\ vlast' = VoiceOp("connect", g, FALSE, <<>>)
  /\ UNCHANGED <<pcache, pobjs, VoiceFrame>>

\* a TrackStartEvent frame for the guild: handleTrackStart
VoiceTrackStart(g) ==
  /\ g \in DOMAIN pcache
  /\ voiceOf' = [voiceOf EXCEPT ![g].playing = TRUE]
  /\ vlast' = VoiceOp("TrackStartEvent", g, FALSE, <<>>)
  /\ UNCHANGED <<pcache, pobjs, VoiceFrame>>

\* players.delete(guildId) after its REST delete succeeded
VoicePlayerDeleted(g) ==
  /\ g \in DOMAIN pcache
  /\ pcache' = Without(pcache, g)
  /\ vlast' = VoiceOp("players.delete", g, FALSE, <<>>)
  /\ UNCHANGED <<voiceOf, pobjs, VoiceFrame>>

\* manager.packetUpdate(packet), by the host
PacketUpdate(packet) ==
  LET r == packetUpdate(pcache, ncache, voiceOf, sortPlayersByRegion, packet)
  IN  /\ pcache' = r.players
      /\ voiceOf' = r.voice
      /\ vlast' = VoiceOp(packet.t, packet.guild,
                          IF packet.t = "VOICE_STATE_UPDATE" THEN packet.mine ELSE FALSE,
                          r.fx)
      /\ UNCHANGED <<pobjs, VoiceFrame>>

\* A manager with two connected nodes, one per voice region, and no player.
InitVoice ==
  /\ QIdle
  /\ previousInArray = FALSE
  /\ PIdle([guildId |-> 1, loop |-> LoopOff, autoPlay |-> FALSE,
            autoLeave |-> FALSE, queueStartIndex |-> 0])
  /\ NIdle(CONNECTED, "open")
  /\ RIdle((1 :> [obj |-> 1, state |-> CONNECTED]) @@ (2 :> [obj |-> 2, state |-> CONNECTED]),
           <<>>)
  /\ CIdle
  /\ OIdle
  /\ playerVariant = 1
  /\ filters = FiltersNew
  /\ destroyCalled = {}
  /\ voiceOf = [g \in Guilds |-> VoiceNew]
  /\ vlast = VoiceOp("new", Null, FALSE, <<>>)
  /\ sortPlayersByRegion \in BOOLEAN

NextVoice ==
  \/ \E g \in PlayerGuilds, pick \in Idents : VoiceCreatePlayer(g, pick)
  \/ \E g \in Guilds : VoiceConnect(g)
  \/ \E g \in Guilds : VoiceTrackStart(g)
  \/ \E g \in Guilds : VoicePlayerDeleted(g)
  \/ \E packet \in ServerPackets \cup StatePackets \cup OtherPackets : PacketUpdate(packet)

SpecVoice == InitVoice /\ [][NextVoice]_vars

\* the REST voice updates among the effects of the last packet
VoiceUpdates(s) == {i \in 1..Len(s) : s[i].k = "rest" /\ s[i].n = "update"}

\* C18: every REST voice update a packet causes is for the packet's guild
\* and carries the token, session id and endpoint that player's voice state
\* holds at that moment, all three present; a packet for a guild without a
\* player, and a VOICE_STATE_UPDATE of another user, cause no update and
\* change no player.
C18_VoiceSyncNeedsAllThree ==
  [][vlast'.op \in {"VOICE_SERVER_UPDATE", "VOICE_STATE_UPDATE", "GUILD_CREATE"} =>
       /\ \A i \in VoiceUpdates(vlast'.fx) :
            /\ vlast'.fx[i].guild = vlast'.guild
            /\ vlast'.guild \in DOMAIN pcache
            /\ vlast'.fx[i].d = [sessionId |-> voiceOf'[vlast'.guild].sessionId,
                                 token |-> voiceOf'[vlast'.guild].token,
                                 endpoint |-> voiceOf'[vlast'.guild].endpoint]
            /\ voiceOf'[vlast'.guild].token # Null
            /\ voiceOf'[vlast'.guild].sessionId # Null
            /\ voiceOf'[vlast'.guild].endpoint # Null
       /\ (\/ vlast'.guild \notin DOMAIN pcache
           \/ (vlast'.op = "VOICE_STATE_UPDATE" /\ ~vlast'.mine)) =>
            /\ vlast'.fx = <<>>
            /\ voiceOf' = voiceOf
            /\ pcache' = pcache]_vars

C18_Witness ==
  /\ vlast.op = "VOICE_STATE_UPDATE"
  /\ vlast.mine
  /\ Cardinality(VoiceUpdates(vlast.fx)) = 1
  /\ voiceOf[vlast.guild].token # Null
  /\ voiceOf[vlast.guild].endpoint # Null
  /\ voiceOf[vlast.guild].sessionId # Null

\* ------------------------------------------------------------------ frame order claims
\* the frame handlers of the player's node
FrameOps == {"TrackStartEvent", "TrackEndEvent"}

\* C21 as claimed: the handling of a frame, with every player change and
\* REST call it triggers, is complete before the handling of the next frame
\* begins - no frame is handled while the autoplay continuation of an
\* earlier frame is still suspended.
C21_AsClaimed ==
  [][plast'.op \in FrameOps => autoplay = <<>>]_vars

\* ------------------------------------------------------------------ autoplay failure claims
\* C22 as claimed: whenever the autoplay collaborator fails during the
\* recovery of a track end, node.destroy() is invoked, whatever the source
\* of the track that ended.
C22_AsClaimed ==
  [][(plast'.op = "autoplay" /\ plast'.reason = "failed") =>
       /\ Count(fx', "call", "node.destroy") = 1
       /\ destroyed']_vars

\* ------------------------------------------------------------------ track-end order claims
\* what handleTrackEnd does to recover: everything but the two notifications
\* that open the handling of the frame
Recovery(e) ==
  \/ e.k \in {"call", "rest", "payload", "throw"}
  \/ (e.k = "emit" /\ e.n \notin {"nodeRaw", "trackEnd"})

\* the previous field once the track that the frame reports was archived
Archived(p, payloadTrack, inArray) ==
  IF inArray THEN Append(p.previous, ArchivedTrack(payloadTrack, p.current))
  ELSE <<ArchivedTrack(payloadTrack, p.current)>>

\* C23: every TrackEndEvent handled for a player emits trackEnd exactly once,
\* with the event's reason, at a moment when playing and paused are already
\* false and the previous track is already archived, and before every
\* recovery action (play, REST update, queueEnd, destroy, autoplay).
C23_TrackEndEmittedOnce ==
  [][EndedWith(Reasons) =>
       /\ Count(fx', "emit", "trackEnd") = 1
       /\ \A i \in Indices(fx', "emit", "trackEnd") :
            /\ fx'[i].r = plast'.reason
            /\ ~fx'[i].playing
            /\ ~fx'[i].paused
            /\ fx'[i].previous = Archived(player, plast'.track, previousInArray)
            /\ \A j \in 1..Len(fx') : Recovery(fx'[j]) => j > i]_vars

C23_Witness ==
  /\ plast.op = "TrackEndEvent" /\ plast.reason = "stopped"
  /\ Count(fx, "emit", "trackEnd") = 1
  /\ Count(fx, "emit", "queueEnd") = 1
  /\ Count(fx, "call", "destroy") = 1
  /\ player.previous # <<>>

\* ------------------------------------------------------------------ archive claims
\* the entry handleTrackEnd archived last
LastArchived(p) == p.previous[Len(p.previous)]

\* C24 as claimed: the track a TrackEndEvent archives into previous carries
\* the encoded payload of the track whose end the event reports, also when
\* the event is the "replaced" end of the track that a successful play() has
\* just superseded; one entry is appended in list mode, the slot is
\* overwritten in single-slot mode.
C24_AsClaimed ==
  [][(/\ plast.op = "play" /\ plast.ret /\ plast.track # Null
      /\ EndedWith({"replaced"})
      /\ plast'.track = plast.track) =>
       /\ Len(player'.previous) =
            IF previousInArray THEN Len(player.previous) + 1 ELSE 1
       /\ LastArchived(player').encoded = Encoded(plast'.track)]_vars

\* ------------------------------------------------------------------ queue loop claims
\* the reasons of a track that ended and is to be followed by the next one
NaturalEnds == Reasons \ {"loadFailed", "cleanup", "replaced"}

\* C25: with loop mode QUEUE, when the current track X ends naturally while
\* the queue holds Q, the position and time of X are reset, X goes to the
\* tail, and the head of Q followed by X is played: current is the first
\* element of Q ++ [X], the queue is the rest in the same order, and current
\* plus queue hold the same tracks as often as before (X itself when Q was
\* empty).
C25_QueueLoopRotates ==
  [][(/\ EndedWith(NaturalEnds)
      /\ player.loop = LoopQueue
      /\ player.current # Null) =>
       LET X == player.current
           Q == QueueValues(player.queue)
           R == Append(Q, X)
           after == <<player'.current>> \o QueueValues(player'.queue)
       IN  /\ player'.current = Head(R)
           /\ QueueValues(player'.queue) = Tail(R)
           /\ QueueSize(player'.queue) = Len(Q)
           /\ \A t \in Tracks : Occurrences(after, t) = Occurrences(<<X>> \o Q, t)
           /\ Count(fx', "set", "position, time") = 1
           /\ \A i \in Indices(fx', "set", "position, time") :
                /\ fx'[i].t = X /\ fx'[i].to = 0
                /\ \A j \in Indices(fx', "call", "play") : i < j
           /\ \A i \in Indices(fx', "rest", "update") :
                fx'[i].d.track = Encoded(Head(R))
           /\ Count(fx', "rest", "update") = 1
           /\ player'.playing]_vars

C25_Witness ==
  /\ plast.op = "TrackEndEvent" /\ plast.reason = "finished"
  /\ player.loop = LoopQueue
  /\ Count(fx, "set", "position, time") = 1
  /\ QueueSize(player.queue) = 2
  /\ player.current # Null
  /\ player.current # QueueValues(player.queue)[2]

\* ------------------------------------------------------------------ queue end claims
\* C26: a track end (reason not loadFailed, cleanup or replaced) handled with
\* loop OFF, an empty queue and autoplay disabled clears the current track,
\* emits queueEnd exactly once, after trackEnd, starts nothing, and destroys
\* the player if and only if auto-leave is set.
C26_QueueEnd ==
  [][(/\ EndedWith(NaturalEnds)
      /\ player.loop = LoopOff
      /\ QueueSize(player.queue) = 0
      /\ ~player.autoPlay) =>
       /\ player'.current = Null
       /\ Count(fx', "emit", "queueEnd") = 1
       /\ \A i \in Indices(fx', "emit", "queueEnd"),
             j \in Indices(fx', "emit", "trackEnd") : j < i
       /\ Count(fx', "call", "play") = 0
       /\ Count(fx', "rest", "update") = 0
       /\ autoplay' = autoplay
       /\ (Count(fx', "call", "destroy") = 1) <=> player.autoLeave
       /\ (Count(fx', "emit", "playerDestroyed") = 1) <=> player.autoLeave
       /\ Count(fx', "call", "destroy") <= 1]_vars

C26_Witness ==
  /\ plast.op = "TrackEndEvent" /\ plast.reason = "finished"
  /\ player.loop = LoopOff /\ ~player.autoPlay /\ ~player.autoLeave
  /\ player.current = Null
  /\ Count(fx, "emit", "queueEnd") = 1
  /\ Count(fx, "call", "destroy") = 0
  /\ player.previous # <<>>

\* ------------------------------------------------------------------ reconnect bound claims
\* C27: the reconnect attempt counter never decreases and never exceeds
\* retryAmount, the open of a successful reconnect leaves it as it is, and
\* the nodeReconnect notifications emitted (one per scheduled reconnect)
\* since the node was constructed never exceed retryAmount.
C27_ReconnectsBounded ==
  [][/\ reconnectAttempts' >= reconnectAttempts
     /\ reconnectAttempts' <= RetryAmount
     /\ reconnects' <= RetryAmount
     /\ reconnects' >= reconnects
     /\ reconnects' - reconnects = Count(nlast'.fx, "emit", "nodeReconnect")
     /\ (reconnectTimeout' = "pending" /\ reconnectTimeout # "pending") <=>
          (reconnects' = reconnects + 1)
     /\ nlast'.op = "open" => reconnectAttempts' = reconnectAttempts]_vars

C27_Witness ==
  /\ nlast.op = "open"
  /\ nstate = CONNECTED
  /\ reconnectAttempts = RetryAmount
  /\ reconnects = RetryAmount

\* ------------------------------------------------------------------ skip
\* the bounds of skip's validator: min(1).max(size) in the first player
\* source, min(0).max(size - 1) in the second; an undefined position passes
SkipValid(position, size, variant) ==
  \/ position = Undefined
  \/ IF variant = 1 THEN 1 <= position /\ position <= size
     ELSE 0 <= position /\ position <= size - 1

\* cacheState() closes the first player source's mutators only
CacheStateOf(variant) == IF variant = 1 THEN <<Call("cacheState")>> ELSE <<>>

\* a skip() that validates nothing and takes whatever the queue hands out
PlayerSkipMutNoValidate(p, position, variant) ==
  LET g == QueueGet(p.queue, position)
  IN  [player |-> [p EXCEPT !.current = g.value,
                            !.queue = QueueRemove(@, position).queue],
       fx |-> <<RestUpdate([track |-> Encoded(g.value)]),
                Emit("playerTriggeredSkip")>> \o CacheStateOf(variant),
       ret |-> TRUE, threw |-> FALSE]

\* skip(position): the update of an empty queue under autoplay comes first,
\* then the validation, then queue.get (which throws out of bounds), the
\* removal and the update - or play() when position is undefined or 0
PlayerSkip(p, position, variant) ==
  LET size == QueueSize(p.queue)
      pre == IF size = 0 /\ p.autoPlay
             THEN <<RestUpdate([track |-> Null])>> ELSE <<>>
      g == QueueGet(p.queue, position)
      skipped == <<Emit("playerTriggeredSkip")>> \o CacheStateOf(variant)
  IN  IF size = 0 /\ ~p.autoPlay
      THEN [player |-> p, fx |-> <<>>, ret |-> FALSE, threw |-> FALSE]
      ELSE IF ~SkipValid(position, size, variant)
      THEN [player |-> p, fx |-> pre \o <<Throw("Invalid position")>>,
            ret |-> FALSE, threw |-> TRUE]
      ELSE IF position # Undefined /\ position # 0
      THEN IF g.threw
           THEN [player |-> p, fx |-> pre \o <<Throw("Position out of bounds")>>,
                 ret |-> FALSE, threw |-> TRUE]
           ELSE [player |-> [p EXCEPT !.current = g.value,
                                      !.queue = QueueRemove(@, position).queue],
                 fx |-> pre \o <<RestUpdate([track |-> Encoded(g.value)])>> \o skipped,
                 ret |-> TRUE, threw |-> FALSE]
      ELSE [player |-> PlayerPlay(p).player,
            fx |-> pre \o PlayerPlay(p).fx \o skipped,
            ret |-> TRUE, threw |-> FALSE]


\* ------------------------------------------------------------------ skip spec
\* the positions the host skips to: none, and every index around the queue
SkipPositions == {Undefined} \cup (0..(MaxPlayerQueue + 1))

\* the queue start indices the manager is configured with
StartIndices == {0, 1}

\* player.skip(position), by the host
HostSkip(position) ==
  /\ \E r \in {PlayerSkip(player, position, playerVariant)} :
       Done([op |-> "skip", arg |-> position, ret |-> r.ret, threw |-> r.threw], r)
  /\ UNCHANGED ControlFrame

\* A manager with one connected node and the player of guild 1 just created,
\* from either player source, under either start index, autoplay on or off.
InitSkip ==
  /\ QIdle
  /\ previousInArray = FALSE
  /\ \E a \in BOOLEAN, s \in StartIndices :
       PIdle([guildId |-> 1, loop |-> LoopOff, autoPlay |-> a,
              autoLeave |-> FALSE, queueStartIndex |-> s])
  /\ NIdle(CONNECTED, "open")
  /\ RIdle((1 :> [obj |-> 1, state |-> CONNECTED]), (1 :> [obj |-> 1, guildId |-> 1]))
  /\ CIdle
  /\ OIdle
  /\ VIdle
  /\ playerVariant \in {1, 2}
  /\ filters = FiltersNew
  /\ destroyCalled = {}

NextSkip ==
  \/ \E t \in Tracks : HostAdd(t)
  \/ HostPlay
  \/ \E position \in SkipPositions : HostSkip(position)

SpecSkip == InitSkip /\ [][NextSkip]_vars

\* ------------------------------------------------------------------ skip claims
\* the position addresses an entry of the queue under its start index
Addresses(q, position) ==
  /\ position - q.startIndex >= 0
  /\ position - q.startIndex < QueueSize(q)

\* C28 as claimed: skip with an explicit position succeeds exactly when the
\* position addresses an entry of the queue under its start index; then that
\* entry becomes the current track, leaves the queue, whose other entries
\* keep their order, and is submitted to the node; for every other position
\* skip fails and changes neither the player nor its queue.
C28_AsClaimed ==
  [][(plast'.op = "skip" /\ plast'.arg # Undefined) =>
       LET Q == QueueValues(player.queue)
           k == plast'.arg - player.queue.startIndex + 1
       IN  IF Addresses(player.queue, plast'.arg)
           THEN /\ plast'.ret /\ ~plast'.threw
                /\ player'.current = Q[k]
                /\ QueueValues(player'.queue) = RemoveAt(Q, k)
                /\ \E i \in Indices(fx', "rest", "update") :
                     fx'[i].d.track = Encoded(Q[k])
           ELSE /\ ~plast'.ret
                /\ player' = player]_vars

\* C29 as claimed, for skip: a call whose position fails validation throws
\* before any REST call is issued, before any notification is emitted and
\* before any field of the player or its queue changes, in every player
\* state, an empty queue under autoplay included.
C29_AsClaimed ==
  [][(/\ plast'.op = "skip"
      /\ ~SkipValid(plast'.arg, QueueSize(player.queue), playerVariant)
      /\ plast'.threw) =>
       /\ \A i \in 1..Len(fx') : fx'[i].k \notin {"rest", "emit", "payload"}
       /\ player' = player]_vars

\* ------------------------------------------------------------------ state snapshot
\* the cache key `${cacheKey}:state` of the player of guild 1
StateKey == 1
\* the snapshot object cacheState() builds (an object, so truthy)
Snapshot == 1

\* cacheState() and invalidateCache() as the calls they make on manager.cache.
\* Both are async functions whose only await is on the adapter call, and the
\* bundled adapters do their work before their first suspension, so the
\* writes land in call order, each within the call that makes it.
RECURSIVE ApplyCacheCalls(_, _, _, _, _)
ApplyCacheCalls(ad, st, effects, options, t) ==
  IF effects = <<>> THEN st
  ELSE
    LET e == Head(effects)
        st1 == IF e = Call("cacheState")
               THEN CacheSet(ad, st, createEntry(StateKey, Snapshot, Undefined,
                                                 options, t, Len(st) + 1)).store
               ELSE IF e = Call("invalidateCache")
               THEN CacheDelete(st, StateKey).store
               ELSE st
    IN  ApplyCacheCalls(ad, st1, Tail(effects), options, t)


\* ------------------------------------------------------------------ snapshot spec
\* most entries the adapter is let to hold
MaxSnapshots == 3

SnapshotFrame == <<qvars, nvars, previousInArray, autoplay, ncache, pcache, nobjs,
                   pobjs, rlast, now, adapter, cacheOptions, reval, clast,
                   expiredLog, ovars, vvars, playerVariant, filters, destroyCalled>>

\* a call on the player together with the cache writes it makes
Stored(op, r) ==
  /\ Done(op, r)
  /\ store' = ApplyCacheCalls(adapter, store, r.fx, cacheOptions, now)
  /\ Len(store') <= MaxSnapshots
  /\ UNCHANGED SnapshotFrame

\* player.queue.add(track), by the host
StoredAdd(t) ==
  /\ QueueSize(player.queue) < MaxPlayerQueue
  /\ Stored([op |-> "queue.add", arg |-> t, ret |-> TRUE, threw |-> FALSE],
            [player |-> [player EXCEPT !.queue = QueueAdd(@, t)], fx |-> <<>>])

\* player.play(), by the host
StoredPlay ==
  \E r \in {PlayerPlay(player)} :
    Stored([op |-> "play", arg |-> Null, ret |-> r.ret, threw |-> FALSE], r)

\* player.connect(options), by the host
StoredConnect ==
  \E r \in {PlayerConnect(player)} :
    Stored([op |-> "connect", arg |-> Null, ret |-> TRUE, threw |-> FALSE], r)

\* player.stop({destroy}), by the host
StoredStop(destroy) ==
  \E r \in {PlayerStop(player, destroy, Registered(player))} :
    Stored([op |-> "stop", arg |-> IF destroy THEN 1 ELSE 0, ret |-> r.ret,
            threw |-> FALSE], r)

\* player.destroy(), by the host
StoredDestroy ==
  \E r \in {PlayerDestroy(player, Registered(player))} :
    Stored([op |-> "destroy", arg |-> Null, ret |-> TRUE, threw |-> FALSE], r)

\* A manager with one connected node, the player of guild 1 just created from
\* the first player source, and an empty cache behind either bundled adapter.
InitSnapshot ==
  /\ QIdle
  /\ previousInArray = FALSE
  /\ PIdle([guildId |-> 1, loop |-> LoopOff, autoPlay |-> FALSE,
            autoLeave |-> FALSE, queueStartIndex |-> 0])
  /\ NIdle(CONNECTED, "open")
  /\ RIdle((1 :> [obj |-> 1, state |-> CONNECTED]), (1 :> [obj |-> 1, guildId |-> 1]))
  /\ now = 1
  /\ adapter \in {"map", "weakmap"}
  /\ cacheOptions = [ttl |-> 0, revalidate |-> FALSE]
  /\ store = <<>>
  /\ reval = <<>>
  /\ clast = [op |-> "new"]
  /\ expiredLog = <<>>
  /\ OIdle
  /\ VIdle
  /\ playerVariant = 1
  /\ filters = FiltersNew
  /\ destroyCalled = {}

NextSnapshot ==
  \/ \E t \in Tracks : StoredAdd(t)
  \/ StoredPlay
  \/ StoredConnect
  \/ \E d \in BOOLEAN : StoredStop(d)
  \/ StoredDestroy
  \/ \E g \in Guilds, ok \in BOOLEAN : DeleteSettles(g, ok)

SpecSnapshot == InitSnapshot /\ [][NextSnapshot]_vars

\* ------------------------------------------------------------------ snapshot claims
\* C30 as claimed: once destroy() has run, called directly or by stop with
\* the destroy option, and the cache writes of that call have landed, the
\* cache holds no state snapshot under the player's key.
C30_AsClaimed ==
  [][Count(fx', "call", "destroy") = 1 => Find(store', StateKey) = 0]_vars

\* ------------------------------------------------------------------ rest GET spec
\* makeRequest(url, {method: 'GET'}, json, cache = true) up to the cached
\* answer or the request: whatever the adapter's options are, a truthy cached
\* value under rest:<node>:<url> is returned and nothing is requested
MakeRequest(st, key, t) ==
  LET g == CacheGet(st, key, t)
  IN  [store |-> g.store, fx |-> g.fx, ret |-> g.ret, served |-> Truthy(g.ret)]

\* rest.getInfo() / rest.getStats(): makeRequest with the cache on, for the
\* resource of the url
GetInfo(key) ==
  \E r \in {MakeRequest(store, key, now)} :
    /\ store' = r.store
    /\ expiredLog' = Logged(expiredLog, r.fx)
    /\ IF r.served
       THEN /\ clast' = CacheOp("makeRequest", key, r.ret, r.fx, 0)
            /\ olast' = Answer("getInfo", key, r.ret, TRUE)
            /\ UNCHANGED reval
       ELSE /\ Len(reval) < MaxReval
            /\ clast' = CacheOp("makeRequest", key, Undefined, r.fx, 1)
            /\ olast' = NoAnswer
            /\ reval' = Append(reval, [key |-> key, stage |-> "sent",
                                       value |-> Undefined])
    /\ UNCHANGED <<now, origin, mutations, mutated, RestFrame>>

\* the server answers the GET of a getInfo call with the resource as it is
InfoAnswers(i) ==
  /\ i \in 1..Len(reval)
  /\ reval[i].stage = "sent"
  /\ reval' = [reval EXCEPT ![i] = [@ EXCEPT !.stage = "received",
                                             !.value = origin[reval[i].key]]]
  /\ clast' = CacheOp("request", Null, Null, <<>>, 0)
  /\ olast' = NoAnswer
  /\ UNCHANGED <<now, store, expiredLog, origin, mutations, mutated, RestFrame>>

\* the response of a getInfo call arrives: makeRequest stores it under the
\* url's key and returns it
GetInfoReturns(i) ==
  /\ i \in 1..Len(reval)
  /\ reval[i].stage = "received"
  /\ \E id \in {Len(expiredLog) + 1} :
       \E r \in {CacheSet(adapter, store,
                          createEntry(reval[i].key, reval[i].value, Undefined,
                                      cacheOptions, now, id))} :
         /\ id <= MaxEntries
         /\ store' = r.store
         /\ clast' = CacheOp("makeRequest returns", reval[i].key, reval[i].value,
                             r.fx, 0)
         /\ expiredLog' = Append(expiredLog, 0)
  /\ reval' = SeqDelete(reval, i)
  /\ olast' = Answer("getInfo", reval[i].key, reval[i].value, FALSE)
  /\ UNCHANGED <<now, origin, mutations, mutated, RestFrame>>

\* the request of a getInfo call fails: makeRequest throws, nothing is stored
GetInfoFails(i) ==
  /\ i \in 1..Len(reval)
  /\ reval[i].stage \in {"sent", "received"}
  /\ reval' = SeqDelete(reval, i)
  /\ clast' = CacheOp("makeRequest throws", reval[i].key, Undefined, <<>>, 0)
  /\ olast' = NoAnswer
  /\ UNCHANGED <<now, store, expiredLog, origin, mutations, mutated, RestFrame>>

\* A rest handler whose manager uses an adapter of either class, without a
\* default time to live.
InitGet ==
  /\ InitRest
  /\ cacheOptions.ttl = 0

NextGet ==
  \/ \E key \in Guilds : GetInfo(key)
  \/ \E i \in 1..MaxReval : InfoAnswers(i)
  \/ \E i \in 1..MaxReval : GetInfoReturns(i)
  \/ \E i \in 1..MaxReval : GetInfoFails(i)
  \/ \E g \in Guilds : GetPlayer(g)
  \/ \E i \in 1..MaxReval : OriginAnswers(i)
  \/ \E i \in 1..MaxReval : GetPlayerReturns(i)
  \/ \E i \in 1..MaxReval :
       /\ i \in 1..Len(reval)
       /\ reval[i].stage \in {"requested", "answered"}
       /\ GetPlayerFails(i)
  \/ \E g \in Guilds, kind \in {"update", "destroy"} : Mutate(g, kind)
  \/ \E i \in 1..MaxMutations : OriginApplies(i)
  \/ \E i \in 1..MaxMutations : MutationReturns(i)
  \/ \E i \in 1..MaxMutations : MutationFails(i)

SpecGet == InitGet /\ [][NextGet]_vars

\* C31 as claimed: for each idempotent GET of the rest handler, with an
\* adapter not configured to always revalidate a cache hit returns the
\* cached response without calling the origin; with an adapter configured
\* to always revalidate every call reaches the origin, and the cache then
\* holds the fresh response.
C31_AsClaimed ==
  [][LET i == Find(store, clast'.key)
         called == clast'.op \in {"makeRequest", "revalidate"}
         returned == clast'.op \in {"makeRequest returns", "revalidate returns"}
     IN  /\ (called /\ ~cacheOptions.revalidate /\ i # 0 /\ ~isExpired(store[i], now)) =>
               /\ clast'.invoked = 0
               /\ clast'.ret = store[i].value
         /\ (called /\ cacheOptions.revalidate) => clast'.invoked = 1
         /\ (returned /\ cacheOptions.revalidate) =>
               CacheGet(store', clast'.key, now).ret = clast'.ret]_vars

\* ------------------------------------------------------------------ filters spec
\* clearTimeout(id): the timer of that id, if still pending, will not fire
ClearTimeout(timers, id) == {tm \in timers : tm.id # id}

\* a setFilter that leaves the previous timer running
SetFilterMutNoClear(f, name, value) ==
  IF value # Null /\ name = "volume"
     /\ ~(value >= FilterVolumeMin /\ value <= FilterVolumeMax)
  THEN [f EXCEPT !.last = [op |-> "set", name |-> name, value |-> value,
                           threw |-> TRUE, n |-> 0]]
  ELSE [f EXCEPT !.data[name] = value,
                 !.filterList[name] = value,
                 !.timers = f.timers \cup {[id |-> f.created + 1,
                                            due |-> f.clock + DebounceTicks,
                                            name |-> name]},
                 !.updateTimeout = f.created + 1,
                 !.created = f.created + 1,
                 !.last = [op |-> "set", name |-> name, value |-> value,
                           threw |-> FALSE, n |-> 0]]

\* LilyFilters.setFilter(filterName, value): validation, player.set and
\* filterList, then the pending timer is cleared and a new one is set
SetFilter(f, name, value) ==
  IF value # Null /\ name = "volume"
     /\ ~(value >= FilterVolumeMin /\ value <= FilterVolumeMax)
  THEN [f EXCEPT !.last = [op |-> "set", name |-> name, value |-> value,
                           threw |-> TRUE, n |-> 0]]
  ELSE [f EXCEPT !.data[name] = value,
                 !.filterList[name] = value,
                 !.timers = (IF f.updateTimeout # Null
                             THEN ClearTimeout(f.timers, f.updateTimeout)
                             ELSE f.timers)
                            \cup {[id |-> f.created + 1,
                                   due |-> f.clock + DebounceTicks,
                                   name |-> name]},
                 !.updateTimeout = f.created + 1,
                 !.created = f.created + 1,
                 !.last = [op |-> "set", name |-> name, value |-> value,
                           threw |-> FALSE, n |-> 0]]

\* the callback of the timer tm: updateFiltersFromRest() up to its
\* rest.update with a copy of filterList, then updateTimeout = null
FilterTimerFires(f, tm) ==
  [f EXCEPT !.sent = Append(f.sent, f.filterList),
            !.inflight = Append(f.inflight, tm.name),
            !.timers = f.timers \ {tm},
            !.updateTimeout = Null,
            !.last = [op |-> "fire", name |-> tm.name, value |-> Null,
                      threw |-> FALSE, n |-> f.sets]]

\* LilyFilters.dispose()
FiltersDispose(f) ==
  IF f.updateTimeout # Null
  THEN [f EXCEPT !.timers = ClearTimeout(f.timers, f.updateTimeout),
                 !.updateTimeout = Null]
  ELSE f

FiltersFrame == <<qvars, nvars, previousInArray, autoplay, ncache, pcache, nobjs,
                  pobjs, rlast, cvars, ovars, vvars, playerVariant, destroyCalled>>

\* player.filters.setVolume(value) and the other public setters, by the host
HostSetFilter(name, value) ==
  /\ ~filters.destroyed
  /\ filters.created < MaxTimers
  /\ \E r \in {SetFilter(filters, name, value)} :
       filters' = IF r.last.threw THEN r
                  ELSE [r EXCEPT !.lastSet[name] = value,
                                 !.lastSetAt = filters.clock,
                                 !.sets = filters.sets + 1]
  /\ UNCHANGED <<pvars, deleting, FiltersFrame>>

\* a pending timer whose delay has passed runs its callback
DebounceFires ==
  /\ Len(filters.sent) < MaxFilterUpdates
  /\ \E tm \in filters.timers :
       /\ filters.clock >= tm.due
       /\ filters' = [FilterTimerFires(filters, tm) EXCEPT !.sets = 0]
  /\ UNCHANGED <<pvars, deleting, FiltersFrame>>

\* the rest.update of a timer callback settles; when it rejects, the catch
\* of the callback sets the player's value of its filter from filterList
FilterUpdateSettles(ok) ==
  /\ filters.inflight # <<>>
  /\ filters' = [filters EXCEPT
                   !.inflight = Tail(@),
                   !.data = IF ok THEN @
                            ELSE [@ EXCEPT ![Head(filters.inflight)] =
                                    filters.filterList[Head(filters.inflight)]],
                   !.last = [op |-> "settle", name |-> Head(filters.inflight),
                             value |-> Null, threw |-> ~ok, n |-> 0]]
  /\ UNCHANGED <<pvars, deleting, FiltersFrame>>

\* time passes
FilterTick ==
  /\ filters.clock < MaxFilterClock
  /\ filters' = [filters EXCEPT !.clock = @ + 1,
                                !.last = [op |-> "tick", name |-> "", value |-> Null,
                                          threw |-> FALSE, n |-> 0]]
  /\ UNCHANGED <<pvars, deleting, FiltersFrame>>

\* player.destroy(), by the host: it does not reach player.filters
FiltersDestroy ==
  /\ ~filters.destroyed
  /\ Done([op |-> "destroy", arg |-> Null, ret |-> TRUE, threw |-> FALSE],
          PlayerDestroy(player, Registered(player)))
  /\ filters' = [filters EXCEPT !.destroyed = TRUE,
                                !.last = [op |-> "destroy", name |-> "", value |-> Null,
                                          threw |-> FALSE, n |-> 0]]
  /\ UNCHANGED FiltersFrame

\* A registered player of either source with its filters just constructed.
InitFilters == InitControl

NextFilters ==
  \/ \E name \in FilterNames, value \in FilterValues : HostSetFilter(name, value)
  \/ DebounceFires
  \/ \E ok \in BOOLEAN : FilterUpdateSettles(ok)
  \/ FilterTick
  \/ FiltersDestroy

SpecFilters == InitFilters /\ [][NextFilters]_vars

\* C32: any number of filter sets on one player within one debounce window
\* produce exactly one REST filter update, sent when the window after the
\* last set has passed and carrying for each filter the value of its last
\* set; filterList and the player's value change at each set, which sends
\* nothing itself; at most one debounce timer is pending at any time.
C32_Debounced ==
  [][/\ Cardinality(filters'.timers) <= 1
     /\ (filters'.last.op = "set" /\ ~filters'.last.threw) =>
          /\ filters'.filterList[filters'.last.name] = filters'.last.value
          /\ filters'.data[filters'.last.name] = filters'.last.value
          /\ filters'.sent = filters.sent
          /\ \E tm \in filters'.timers : tm.due = filters.clock + DebounceTicks
     /\ filters'.last.op = "fire" =>
          /\ filters.sets >= 1
          /\ filters.clock >= filters.lastSetAt + DebounceTicks
          /\ filters'.sent = Append(filters.sent, filters.lastSet)
          /\ filters'.timers = {}
     /\ filters'.last.op # "fire" => filters'.sent = filters.sent]_vars

C32_Witness ==
  /\ filters.last.op = "fire"
  /\ filters.last.n >= 2
  /\ Len(filters.sent) = 1
  /\ \E n \in FilterNames : filters.sent[1][n] = NumFilterValues

\* C33 as claimed: when a player is destroyed while a filter debounce is
\* pending, the timer is cancelled, and no REST filter update is issued for
\* that player afterwards.
C33_AsClaimed ==
  [][/\ filters'.last.op = "destroy" => filters'.timers = {}
     /\ filters.destroyed => filters'.sent = filters.sent]_vars

\* ------------------------------------------------------------------ malformed frame
\* C34: an inbound frame that cannot be parsed as JSON causes exactly one
\* nodeError notification and nothing else: no handler runs, and the node's
\* state, session id, stats, info, socket, listeners, reconnect timer and
\* counter, and every player and registry, are unchanged.
C34_MalformedFrame ==
  [][nlast'.op = "malformed" =>
       /\ nlast'.fx = <<Emit("nodeError")>>
       /\ NodeRec' = NodeRec
       /\ <<sessionId, stats, info, infoPending>>' = <<sessionId, stats, info, infoPending>>
       /\ <<initialized, destroyed, gaveUp, reconnects>>' =
            <<initialized, destroyed, gaveUp, reconnects>>
       /\ <<player, fx, queue, ncache, pcache, deleting>>' =
            <<player, fx, queue, ncache, pcache, deleting>>]_vars

C34_Witness ==
  /\ nlast.op = "malformed"
  /\ nstate = CONNECTED
  /\ sessionId # 0
  /\ stats # 0
  /\ reconnects > 0

\* ------------------------------------------------------------------ stop
\* the tracks an operation submitted to the node: its rest.update calls
\* that carry an encoded track
Submitted(effects) ==
  {i \in 1..Len(effects) :
     /\ effects[i].k = "rest" /\ effects[i].n = "update"
     /\ "track" \in DOMAIN effects[i].d
     /\ effects[i].d.track # Null}

\* C35 as claimed: after stop() without the destroy option has returned true
\* and the node's TrackEndEvent with reason stopped for the stopped track
\* has been handled, no track has been submitted or re-submitted to the node,
\* no autoplay search is under way, and playing is still false, for every
\* loop mode and autoplay setting.
C35_AsClaimed ==
  [][(/\ plast.op = "stop" /\ plast.ret /\ plast.reason = ""
      /\ player.current # Null
      /\ EndedWith({"stopped"})
      /\ plast'.track = player.current) =>
       /\ Submitted(fx') = {}
       /\ autoplay' = autoplay
       /\ ~player'.playing]_vars

\* ------------------------------------------------------------------ track-end progress
\* the search of a handleAutoPlay under way settles, one way or another
AutoPlaySettles ==
  \E i \in 1..MaxPendingAutoPlay :
    \/ AutoPlayNothing(i)
    \/ AutoPlayFails(i)
    \/ \E t \in Tracks : AutoPlayPicks(i, t)

\* a REST delete in flight settles
DeleteSettled == \E g \in Guilds, ok \in BOOLEAN : DeleteSettles(g, ok)

\* The player of guild 1 with loop OFF. The promises the handlers wait for
\* settle: the search of handleAutoPlay and the REST delete of players.delete
\* are requests that end in a response or an error. Nothing obliges the
\* host to call the player again or the node to send another event.
InitLive ==
  /\ Init
  /\ player.loop = LoopOff
  /\ ~previousInArray

SpecLive ==
  InitLive /\ [][Next]_vars /\ WF_vars(AutoPlaySettles) /\ WF_vars(DeleteSettled)

\* a track end with reason finished has just been handled with loop OFF and
\* an empty queue (handleTrackEnd did not call play)
FinishedOnEmptyQueue ==
  /\ plast.op = "TrackEndEvent"
  /\ plast.reason = "finished"
  /\ player.loop = LoopOff
  /\ Count(fx, "call", "play") = 0

\* a new track has been started, or queueEnd is emitted with the current
\* track cleared
Recovered ==
  \/ player.playing
  \/ Count(fx, "emit", "queueEnd") = 1 /\ player.current = Null

\* C36 as claimed: whenever a track end with reason finished is handled for
\* a player with loop OFF and an empty queue, the player eventually either
\* starts a new track or emits queueEnd with the current track cleared,
\* whatever autoplay does.
C36_AsClaimed == FinishedOnEmptyQueue ~> Recovered

\* ------------------------------------------------------------------ destroy and create
\* most REST deletes in flight for one guild
MaxDeletes == 2

\* player.destroy() on the player registered under g, by the host:
\* players.delete(guildId) is called and not awaited, so the player stays
\* in the registry while the REST delete is in flight
DestroyPlayer(g) ==
  /\ g \in DOMAIN pcache
  /\ deleting[g] < MaxDeletes
  /\ destroyCalled' = destroyCalled \cup {pcache[g].obj}
  /\ deleting' = StartDelete(g, 1)
  /\ rlast' = [op |-> "player.destroy", key |-> g]
  /\ UNCHANGED <<ncache, nobjs, pcache, pobjs, qvars, pvars, nvars, cvars, ovars, vvars,
                 playerVariant, filters>>

\* A manager with one connected node and no player.
InitDestroy ==
  /\ QIdle
  /\ previousInArray = FALSE
  /\ PIdle([guildId |-> 1, loop |-> LoopOff, autoPlay |-> FALSE,
            autoLeave |-> FALSE, queueStartIndex |-> 0])
  /\ NIdle(CONNECTED, "open")
  /\ RIdle((1 :> [obj |-> 1, state |-> CONNECTED]), <<>>)
  /\ EIdle

NextDestroy ==
  \/ \E c \in CreateConfigs, k \in {Null} \cup Idents : RegistryCreatePlayer(c, k)
  \/ \E g \in Guilds : DestroyPlayer(g)
  \/ \E g \in Guilds, ok \in BOOLEAN : DeleteSettles(g, ok)

SpecDestroy == InitDestroy /\ [][NextDestroy]_vars

\* C37 as claimed: createPlayer for a guild never returns a player object on
\* which destroy() has already been called, however createPlayer interleaves
\* with the pending or failing REST delete that destroy started; and a
\* player obtained from createPlayer stays registered under its guild until
\* destroy is called on it.
C37_AsClaimed ==
  [][/\ (rlast'.op = "players.create" /\ ~rlast'.threw) =>
          rlast'.ret \notin destroyCalled
     /\ \A g \in DOMAIN pcache :
          pcache[g].obj \notin destroyCalled' =>
            /\ g \in DOMAIN pcache'
            /\ pcache'[g].obj = pcache[g].obj]_vars

\* ------------------------------------------------------------------ bundled adapters
\* The stores of the other bundled adapters. ObjectAdapter: cache, a record
\* key -> entry. SetAdapter: cache, a Set of entries, and Keys, a Map
\* key -> entry. ArrayAdapter: cache, an array of entries, and Keys, a Map
\* key -> index (positions count from 1 here, from 0 in the source).
Adapters == {"map", "object", "array", "set", "weakmap"}
\* most set calls on one adapter
MaxSets == 3

Miss(st) == [store |-> st, ret |-> Undefined, fx |-> <<>>]
Absent(st) == [store |-> st, ret |-> FALSE, fx |-> <<>>]
Expired(st, entry, ret) ==
  [store |-> st, ret |-> ret, fx |-> <<CacheEmit("cacheExpired", entry.key, entry.id)>>]

ObjectGet(st, key, t) ==
  IF key \notin DOMAIN st THEN Miss(st)
  ELSE IF isExpired(st[key], t) THEN Expired(Without(st, key), st[key], Undefined)
  ELSE [store |-> st, ret |-> st[key].value, fx |-> <<>>]

ObjectSet(st, entry) ==
  [store |-> [k \in (DOMAIN st) \cup {entry.key} |->
                IF k = entry.key THEN entry ELSE st[k]],
   fx |-> <<CacheEmit("cacheSet", entry.key, entry.id)>>]

ObjectHas(st, key, t) ==
  IF key \notin DOMAIN st THEN Absent(st)
  ELSE IF isExpired(st[key], t) THEN Expired(Without(st, key), st[key], FALSE)
  ELSE [store |-> st, ret |-> TRUE, fx |-> <<>>]

ObjectDelete(st, key) ==
  IF key \in DOMAIN st
  THEN [store |-> Without(st, key), ret |-> TRUE,
        fx |-> <<CacheEmit("cacheDelete", key, st[key].id)>>]
  ELSE Absent(st)

SetGet(st, key, t) ==
  IF key \notin DOMAIN st.Keys THEN Miss(st)
  ELSE IF isExpired(st.Keys[key], t)
  THEN Expired([cache |-> st.cache \ {st.Keys[key]}, Keys |-> Without(st.Keys, key)],
               st.Keys[key], Undefined)
  ELSE [store |-> st, ret |-> st.Keys[key].value, fx |-> <<>>]

\* the entry the key had stays in the Set
SetSet(st, entry) ==
  [store |-> [cache |-> st.cache \cup {entry}, Keys |-> ObjectSet(st.Keys, entry).store],
   fx |-> <<CacheEmit("cacheSet", entry.key, entry.id)>>]

SetHas(st, key, t) ==
  IF key \notin DOMAIN st.Keys THEN Absent(st)
  ELSE IF isExpired(st.Keys[key], t)
  THEN Expired([cache |-> st.cache \ {st.Keys[key]}, Keys |-> Without(st.Keys, key)],
               st.Keys[key], FALSE)
  ELSE [store |-> st, ret |-> TRUE, fx |-> <<>>]

SetDelete(st, key) ==
  IF key \in DOMAIN st.Keys
  THEN [store |-> [cache |-> st.cache \ {st.Keys[key]}, Keys |-> Without(st.Keys, key)],
        ret |-> TRUE, fx |-> <<CacheEmit("cacheDelete", key, st.Keys[key].id)>>]
  ELSE Absent(st)

\* ArrayAdapter.updateIndices(deletedIndex) after Keys.delete(key)
updateIndices(Keys, deletedIndex) ==
  [k \in DOMAIN Keys |-> IF Keys[k] > deletedIndex THEN Keys[k] - 1 ELSE Keys[k]]

\* cache.splice(index, 1); Keys.delete(key); updateIndices(index)
ArraySplice(st, key) ==
  [cache |-> SeqDelete(st.cache, st.Keys[key]),
   Keys |-> updateIndices(Without(st.Keys, key), st.Keys[key])]

ArrayGet(st, key, t) ==
  IF key \notin DOMAIN st.Keys THEN Miss(st)
  ELSE IF st.Keys[key] \notin 1..Len(st.cache) THEN Miss(st)
  ELSE IF isExpired(st.cache[st.Keys[key]], t)
  THEN Expired(ArraySplice(st, key), st.cache[st.Keys[key]], Undefined)
  ELSE [store |-> st, ret |-> st.cache[st.Keys[key]].value, fx |-> <<>>]

ArraySet(st, entry) ==
  [store |-> IF entry.key \in DOMAIN st.Keys
             THEN [st EXCEPT !.cache[st.Keys[entry.key]] = entry]
             ELSE [cache |-> Append(st.cache, entry),
                   Keys |-> st.Keys @@ (entry.key :> Len(st.cache) + 1)],
   fx |-> <<CacheEmit("cacheSet", entry.key, entry.id)>>]

ArrayHas(st, key, t) ==
  IF key \notin DOMAIN st.Keys THEN Absent(st)
  ELSE IF st.Keys[key] \notin 1..Len(st.cache) THEN Absent(st)
  ELSE IF isExpired(st.cache[st.Keys[key]], t)
  THEN Expired(ArraySplice(st, key), st.cache[st.Keys[key]], FALSE)
  ELSE [store |-> st, ret |-> TRUE, fx |-> <<>>]

ArrayDelete(st, key) ==
  IF key \in DOMAIN st.Keys
  THEN [store |-> ArraySplice(st, key), ret |-> TRUE,
        fx |-> <<CacheEmit("cacheDelete", key, Null)>>]
  ELSE Absent(st)

\* the methods of the adapter of class ad
AdapterNew(ad) ==
  CASE ad = "object" -> <<>>
    [] ad = "set" -> [cache |-> {}, Keys |-> <<>>]
    [] ad = "array" -> [cache |-> <<>>, Keys |-> <<>>]
    [] OTHER -> <<>>

AdapterGet(ad, st, key, t) ==
  CASE ad = "object" -> ObjectGet(st, key, t)
    [] ad = "set" -> SetGet(st, key, t)
    [] ad = "array" -> ArrayGet(st, key, t)
    [] OTHER -> CacheGet(st, key, t)

AdapterSet(ad, st, entry) ==
  CASE ad = "object" -> ObjectSet(st, entry)
    [] ad = "set" -> SetSet(st, entry)
    [] ad = "array" -> ArraySet(st, entry)
    [] OTHER -> CacheSet(ad, st, entry)

AdapterHas(ad, st, key, t) ==
  CASE ad = "object" -> ObjectHas(st, key, t)
    [] ad = "set" -> SetHas(st, key, t)
    [] ad = "array" -> ArrayHas(st, key, t)
    [] OTHER -> CacheHas(st, key, t)

AdapterDelete(ad, st, key) ==
  CASE ad = "object" -> ObjectDelete(st, key)
    [] ad = "set" -> SetDelete(st, key)
    [] ad = "array" -> ArrayDelete(st, key)
    [] OTHER -> CacheDelete(st, key)

\* the last call on the adapter; for a set, the value and the expiry of
\* the entry it made (0: none)
AdapterOp(op, key, ret, emitted, value, expires) ==
  [op |-> op, key |-> key, ret |-> ret, fx |-> emitted, value |-> value,
   expires |-> expires]

AGet(key) ==
  /\ \E r \in {AdapterGet(adapter, store, key, now)} :
       /\ store' = r.store
       /\ clast' = AdapterOp("get", key, r.ret, r.fx, Null, 0)
  /\ UNCHANGED <<now, reval, expiredLog, CacheFrame>>

AHas(key) ==
  /\ \E r \in {AdapterHas(adapter, store, key, now)} :
       /\ store' = r.store
       /\ clast' = AdapterOp("has", key, r.ret, r.fx, Null, 0)
  /\ UNCHANGED <<now, reval, expiredLog, CacheFrame>>

ASet(key, value, ttl) ==
  /\ Len(expiredLog) < MaxSets
  /\ \E entry \in {createEntry(key, value, ttl, cacheOptions, now, Len(expiredLog) + 1)} :
       \E r \in {AdapterSet(adapter, store, entry)} :
         /\ store' = r.store
         /\ clast' = AdapterOp("set", key, Null, r.fx, value, entry.expires)
  /\ expiredLog' = Append(expiredLog, 0)
  /\ UNCHANGED <<now, reval, CacheFrame>>

ADelete(key) ==
  /\ \E r \in {AdapterDelete(adapter, store, key)} :
       /\ store' = r.store
       /\ clast' = AdapterOp("delete", key, r.ret, r.fx, Null, 0)
  /\ UNCHANGED <<now, reval, expiredLog, CacheFrame>>

ATick ==
  /\ now < MaxClock
  /\ now' = now + 1
  /\ clast' = AdapterOp("tick", Null, Null, <<>>, Null, 0)
  /\ UNCHANGED <<store, reval, expiredLog, CacheFrame>>

\* An adapter of any bundled class, with or without a default ttl.
InitAdapters ==
  /\ QIdle
  /\ previousInArray = FALSE
  /\ PIdle([guildId |-> 1, loop |-> LoopOff, autoPlay |-> FALSE,
            autoLeave |-> FALSE, queueStartIndex |-> 0])
  /\ NIdle(CONNECTING, "null")
  /\ RIdle((1 :> [obj |-> 1, state |-> CONNECTING]), <<>>)
  /\ OIdle
  /\ VIdle
  /\ playerVariant = 1
  /\ filters = FiltersNew
  /\ destroyCalled = {}
  /\ now = 1
  /\ adapter \in Adapters
  /\ cacheOptions \in [ttl : {0, MaxTtl}, revalidate : {FALSE}]
  /\ store = AdapterNew(adapter)
  /\ reval = <<>>
  /\ clast = AdapterOp("new", Null, Null, <<>>, Null, 0)
  /\ expiredLog = <<>>

NextAdapters ==
  \/ \E key \in CacheKeys : AGet(key)
  \/ \E key \in CacheKeys : AHas(key)
  \/ \E key \in CacheKeys, value \in CachedValues, ttl \in SetTtls : ASet(key, value, ttl)
  \/ \E key \in CacheKeys : ADelete(key)
  \/ ATick

SpecAdapters == InitAdapters /\ [][NextAdapters]_vars

\* C38 as claimed: for every bundled adapter and any history of operations
\* on a key k, after set(k, v) with no expiry get(k) returns v, the most
\* recently set value, and after delete(k) has(k) is false and get(k)
\* returns nothing.
C38_AsClaimed ==
  [][/\ (clast'.op = "set" /\ clast'.expires = 0) =>
          AdapterGet(adapter, store', clast'.key, now).ret = clast'.value
     /\ clast'.op = "delete" =>
          /\ ~AdapterHas(adapter, store', clast'.key, now).ret
          /\ AdapterGet(adapter, store', clast'.key, now).ret = Undefined]_vars

\* ------------------------------------------------------------------ queue membership
\* the tracks in the queue: the values met from head by next links
InQueue(q) == {QueueValues(q)[i] : i \in 1..Len(QueueValues(q))}

\* C39 as claimed: after any sequence of add, unshift, shift, pop, remove,
\* clear and shuffle, has(t) is true exactly when t is one of the tracks
\* in the queue, also when the same track was added more than once.
C39_AsClaimed == \A t \in QueueTracks : QueueHas(queue, t) <=> t \in InQueue(queue)

\* ------------------------------------------------------------------ queue links
\* the nodes met from n by prev links, at most k of them
RECURSIVE Backward(_, _, _)
Backward(q, n, k) ==
  IF n = Null \/ k = 0 THEN <<>> ELSE <<n>> \o Backward(q, q.nodes[n].prev, k - 1)

Reversed(s) == [i \in 1..Len(s) |-> s[Len(s) + 1 - i]]

\* C40: after any sequence of queue operations the linked structure is
\* consistent: size is the number of nodes met from head by next links and
\* from tail by prev links, head is null exactly when tail is null exactly
\* when size is 0, head has no predecessor and tail no successor, and the
\* forward traversal is the reverse of the backward one.
C40_LinksConsistent ==
  LET most == Cardinality(DOMAIN queue.nodes) + 1
      fwd == Forward(queue, queue.head, most)
      bwd == Backward(queue, queue.tail, most)
  IN  /\ Len(fwd) = QueueSize(queue)
      /\ Len(bwd) = QueueSize(queue)
      /\ (queue.head = Null) = (queue.tail = Null)
      /\ (queue.head = Null) = (QueueSize(queue) = 0)
      /\ queue.head # Null => queue.nodes[queue.head].prev = Null
      /\ queue.tail # Null => queue.nodes[queue.tail].next = Null
      /\ fwd = Reversed(bwd)

C40_Witness ==
  /\ qlast.op = "remove"
  /\ ~qlast.threw
  /\ QueueSize(qlast.pre) = MaxQueue
  /\ QueueSize(queue) = MaxQueue - 1
  /\ queue.head = qlast.pre.head
  /\ queue.tail = qlast.pre.tail
  /\ queue.nodes[queue.head].next = queue.tail


====
